---- MODULE Spec2Model ----
(***************************************************************************)
(* Multi-agent customer-care router: session memory, planner, plan         *)
(* validation, plan execution (sequential / parallel / conditional),       *)
(* response synthesis and the request pipeline of the orchestrator.        *)
(*                                                                         *)
(* Conventions.  Confidences are fixed-point tenths (0.6 is 6).  A text is *)
(* a record of the features the code inspects: which planner words it      *)
(* contains, which order ids the order regex finds in it (in order of      *)
(* occurrence), which issue and product keywords it contains, and its      *)
(* length class.  depends_on lists are sets (the code only tests           *)
(* membership in them).  Timestamps other than last_activity are never     *)
(* read by the code and are left out.                                      *)
(***************************************************************************)
EXTENDS Naturals, Integers, Sequences, FiniteSets, TLC

VARIABLES
    sessions,             \* SessionMemory.sessions: id -> Session
    now,                  \* datetime.now(), in seconds
    last,                 \* the last session-memory call and what it returned
    llm,                  \* generative backend: "unconfigured" | "failing" | "ok"
    handlers,             \* "agents": the four agents of the repository;
                          \* "stub": any implementation of BaseAgent.process_request
    pc,                   \* position of the request / of the plan execution
    req,                  \* user_message of the request in progress
    sid,                  \* session_id of the request in progress
    context,              \* context dict handed to planner and handlers
    plan,                 \* ExecutionPlan (mode, steps, status)
    validation,           \* (is_valid, issues) of validate_plan
    results,              \* results list of _execute_plan
    accumulated_context,  \* accumulated_context of _execute_plan
    completed_agents,     \* completed_agents of the conditional loop
    progress_made,        \* progress_made of the conditional loop
    idx,                  \* loop position over plan.steps (1-based)
    rounds,               \* number of scans of the conditional while loop
    tasks,                \* parallel mode: state of each created task
    calls,                \* the original context, then the handler invocations awaited
                          \* in line (step, handler, context handed over)
    final,                \* dict returned by process_request
    returned,             \* what the chat endpoint handed to the caller
    inflight              \* overlapping chat requests: the state of each coroutine

vars == <<sessions, now, last, llm, handlers, pc, req, sid, context, plan, validation,
          results, accumulated_context, completed_agents, progress_made, idx,
          rounds, tasks, calls, final, returned, inflight>>

storeVars == <<sessions, now, last>>
reqVars   == <<llm, handlers, inflight, pc, req, sid, context, plan, validation, final,
               returned>>
execVars  == <<results, accumulated_context, completed_agents, progress_made,
               idx, rounds, tasks, calls>>

----------------------------------------------------------------------------
(* Bounds of the model *)

MaxTime == 3601      \* the clock stops here
MaxMsgs == 2         \* messages held by the session memory when exercised on its own
MaxMentions == 2     \* order ids matched in one message
MaxWords == 2        \* planner words in one request
MaxRequests == 1     \* requests the chat endpoint answers in one behaviour

(* Program constants *)

session_timeout == 3600

None == "<None>"

OrderIds == {"12345", "99999"}       \* 12345 is in the mock order table, 99999 is not
KnownOrders == {"12345"}

----------------------------------------------------------------------------
(* Texts *)

\* lists of _update_context
issues == <<"won't turn on", "not turning on", "overheating", "slow", "wifi",
            "screen", "display", "battery", "charging", "keyboard", "trackpad">>
products == <<"techbook", "laptop", "computer", "pro 15", "air 13", "gaming 17">>

Range(s) == {s[k] : k \in 1..Len(s)}

\* id names the text; len is its length class ("empty", "short": 1..100
\* characters, "medium": 101..200, "long": more); specific: it contains
\* "specific" or "recommend"; words: planner words it contains; orders: matches
\* of the order regex; issues, products: keywords of _update_context it
\* contains; wordy: more than 15 words; questions: more than one "?"
Txt(id, len, words, orders, iss, prods) ==
    [id |-> id, len |-> len, specific |-> FALSE, words |-> words,
     orders |-> orders, issues |-> iss, products |-> prods,
     wordy |-> FALSE, questions |-> FALSE]

NoText == Txt("none", "empty", {}, <<>>, {}, {})

SeqsUpTo(S, n) == UNION {[1..k -> S] : k \in 0..n}

\* message contents used to exercise the session memory on its own
MemContents ==
    {Txt("msg", "short", {}, o, {}, {}) : o \in SeqsUpTo(KnownOrders, MaxMentions)}
    \cup {Txt("msg", "short", {}, <<>>, {"wifi", "slow"}, {"laptop"})}

----------------------------------------------------------------------------
(* Session memory (memory/session_memory.py) *)

Session(t) ==
    [last_activity |-> t, messages |-> <<>>, issues_mentioned |-> <<>>,
     orders_discussed |-> <<>>, products_discussed |-> <<>>]

Message(role, content, agent_used) ==
    [role |-> role, content |-> content, agent_used |-> agent_used]

Facts(s) == [issues_mentioned |-> s.issues_mentioned,
             orders_discussed |-> s.orders_discussed,
             products_discussed |-> s.products_discussed]

NoFacts == Facts(Session(0))

\* "if x not in lst: lst.append(x)" for every x of items, in order
RECURSIVE AppendUniqueDup(_, _)
AppendUniqueDup(lst, items) ==
    IF items = <<>> THEN lst
    ELSE AppendUniqueDup(Append(lst, Head(items)), Tail(items))

RECURSIVE AppendUnique(_, _)
AppendUnique(lst, items) ==
    IF items = <<>> THEN lst
    ELSE AppendUnique(IF Head(items) \in Range(lst) THEN lst
                      ELSE Append(lst, Head(items)),
                      Tail(items))

Mentioned(keywords, found) == SelectSeq(keywords, LAMBDA k : k \in found)

update_context(session, content) ==
    [session EXCEPT
        !.orders_discussed = AppendUnique(@, content.orders),
        !.issues_mentioned = AppendUnique(@, Mentioned(issues, content.issues)),
        !.products_discussed = AppendUnique(@, Mentioned(products, content.products))]

Expired(store, id, t) == t - store[id].last_activity > session_timeout

Remove(store, id) == [k \in DOMAIN store \ {id} |-> store[k]]

\* get_session: [found, session, store]; an expired session is deleted
get_session_NoExpiry(store, id, t) ==
    IF id \notin DOMAIN store
    THEN [found |-> FALSE, store |-> store]
    ELSE [found |-> TRUE, store |-> store]

get_session(store, id, t) ==
    IF id \notin DOMAIN store
    THEN [found |-> FALSE, store |-> store]
    ELSE IF Expired(store, id, t)
    THEN [found |-> FALSE, store |-> Remove(store, id)]
    ELSE [found |-> TRUE, store |-> store]

Uuids == {"uuid-1"}
CallerIds == {"a"}

\* create_session: a given id is adopted as it is; None draws a uuid4
create_session(store, id, fresh, t) ==
    LET new == IF id = None THEN fresh ELSE id
    IN  [id |-> new,
         store |-> [k \in DOMAIN store \cup {new} |->
                        IF k = new THEN Session(t) ELSE store[k]]]

\* get_or_create_session: [id, store]
get_or_create_session(store, id, fresh, t) ==
    LET g == IF id # None /\ id # "" THEN get_session(store, id, t)
             ELSE [found |-> FALSE, store |-> store]
    IN  IF g.found THEN [id |-> id, store |-> g.store]
        ELSE create_session(g.store, id, fresh, t)

\* add_message that opens a session for an id it does not find
add_message_Upsert(store, id, role, content, agent_used, t) ==
    LET g == get_session(store, id, t)
        s0 == IF g.found THEN g.store ELSE create_session(g.store, id, id, t).store
    IN  [raised |-> FALSE,
         store |-> [s0 EXCEPT ![id] =
             update_context(
                 [@ EXCEPT !.messages = Append(@, Message(role, content, agent_used)),
                           !.last_activity = t],
                 content)]]

\* add_message: [raised, store]
add_message(store, id, role, content, agent_used, t) ==
    LET g == get_session(store, id, t)
    IN  IF ~g.found THEN [raised |-> TRUE, store |-> g.store]
        ELSE [raised |-> FALSE,
              store |-> [g.store EXCEPT ![id] =
                  update_context(
                      [@ EXCEPT !.messages = Append(@, Message(role, content, agent_used)),
                                !.last_activity = t],
                      content)]]

\* get_all_session_ids: [ids, store]; expired sessions are deleted
get_all_session_ids(store, t) ==
    LET active == {id \in DOMAIN store : ~Expired(store, id, t)}
    IN  [ids |-> active, store |-> [k \in active |-> store[k]]]

RECURSIVE SumMsgs(_, _)
SumMsgs(store, ids) ==
    IF ids = {} THEN 0
    ELSE LET id == CHOOSE k \in ids : TRUE
         IN  Len(store[id].messages) + SumMsgs(store, ids \ {id})

TotalMsgs(store) == SumMsgs(store, DOMAIN store)

clear_all_sessions(store) == [k \in {} |-> Session(0)]

----------------------------------------------------------------------------
(* The session memory on its own: any sequence of calls, with the clock      *)
(* advancing by exactly the timeout (the session is still alive) or by one  *)
(* second more (it has expired)                                             *)

\* the context dict: {} is the record with every entry empty; previous_results
\* and tool_results stand for keys that are absent when empty; shares_lists:
\* the three fact lists of the dict are the list objects of a session that is
\* in the store; facts_when_taken: the content of those lists when the dict
\* was built
EmptyContext ==
    [session_id |-> None, issues_mentioned |-> <<>>, orders_discussed |-> <<>>,
     products_discussed |-> <<>>, recent_conversation |-> <<>>,
     conversation_length |-> 0, previous_results |-> <<>>, tool_results |-> <<>>,
     shares_lists |-> FALSE, facts_when_taken |-> NoFacts]

\* the dict process_request returns; path: the place that built it
NoFinal == [response |-> NoText, confidence |-> 0, path |-> "none", plan_steps |-> <<>>]

\* what the caller of the chat endpoint got; n counts the requests answered
NoReturn == [n |-> 0, status |-> 0, response |-> NoText, confidence |-> 0,
             session_id |-> None]

NoCall == [op |-> "none", id |-> None, ret |-> None, ids |-> {}, stale |-> {},
           raised |-> FALSE,
           expired |-> FALSE, content |-> NoText, role |-> "none",
           before |-> NoFacts, seen |-> FALSE, status |-> 0, history |-> <<>>]

IdleReq ==
    /\ llm = "unconfigured"
    /\ handlers = "agents"
    /\ pc = "idle"
    /\ req = NoText
    /\ sid = None
    /\ context = EmptyContext
    /\ plan = [execution_mode |-> "sequential", steps |-> <<>>, estimated_time |-> 0,
               confidence |-> 0, status |-> "created"]
    /\ validation = [is_valid |-> TRUE, issues |-> <<>>]
    /\ final = NoFinal
    /\ returned = NoReturn

IdleExec ==
    /\ results = <<>>
    /\ accumulated_context = EmptyContext
    /\ completed_agents = {}
    /\ progress_made = FALSE
    /\ idx = 0
    /\ rounds = 0
    /\ tasks = <<>>
    /\ calls = <<>>

MemInit ==
    /\ sessions = [k \in {} |-> Session(0)]
    /\ now = 0
    /\ last = NoCall
    /\ IdleReq
    /\ IdleExec
    /\ inflight = <<>>

WasExpired(id) == id \in DOMAIN sessions /\ Expired(sessions, id, now)

MemGetOrCreate ==
    \E id \in CallerIds \cup {None} :
    \E fresh \in Uuids :
        /\ id = None => fresh \notin DOMAIN sessions
        /\ LET r == get_or_create_session(sessions, id, fresh, now)
           IN  /\ sessions' = r.store
               /\ last' = [NoCall EXCEPT !.op = "get_or_create_session", !.id = id,
                                         !.ret = r.id, !.expired = WasExpired(id)]
        /\ UNCHANGED <<now, reqVars, execVars>>

MemAddMessage ==
    \E id \in CallerIds, role \in {"user", "assistant"}, c \in MemContents :
        /\ TotalMsgs(sessions) < MaxMsgs
        /\ LET r == add_message(sessions, id, role, c, None, now)
           IN  /\ sessions' = r.store
               /\ last' = [NoCall EXCEPT
                     !.op = "add_message", !.id = id, !.raised = r.raised,
                     !.role = role, !.content = c,
                     !.expired = WasExpired(id),
                     !.before = IF id \in DOMAIN sessions THEN Facts(sessions[id])
                                ELSE NoFacts,
                     !.seen = /\ id \in DOMAIN sessions
                              /\ \E k \in 1..Len(sessions[id].messages) :
                                     sessions[id].messages[k].content = c]
        /\ UNCHANGED <<now, reqVars, execVars>>

MemListSessions ==
    /\ LET r == get_all_session_ids(sessions, now)
       IN  /\ sessions' = r.store
           /\ last' = [NoCall EXCEPT !.op = "get_all_session_ids", !.ids = r.ids,
                                     !.stale = {id \in DOMAIN sessions : WasExpired(id)}]
    /\ UNCHANGED <<now, reqVars, execVars>>

MemClearAll ==
    /\ sessions # clear_all_sessions(sessions)
    /\ sessions' = clear_all_sessions(sessions)
    /\ last' = [NoCall EXCEPT !.op = "clear_all_sessions"]
    /\ UNCHANGED <<now, reqVars, execVars>>

Tick ==
    \E d \in {session_timeout, session_timeout + 1} :
        /\ pc = "idle" /\ returned.n < MaxRequests
        /\ now + d <= MaxTime
        /\ now' = now + d
        /\ UNCHANGED <<sessions, last, reqVars, execVars>>

MemNext ==
    \/ MemGetOrCreate
    \/ MemAddMessage
    \/ MemListSessions
    \/ MemClearAll
    \/ Tick

SpecMem == MemInit /\ [][MemNext]_vars

----------------------------------------------------------------------------
(* Claims about the session memory *)

NoDuplicates(lst) == \A j, k \in 1..Len(lst) : j # k => lst[j] # lst[k]

ListedOnlyAlive ==
    last.op = "get_all_session_ids" =>
        /\ last.ids \cap last.stale = {}
        /\ DOMAIN sessions \cap last.stale = {}
        /\ last.ids = DOMAIN sessions

\* C3 as stated: get_or_create_session called with the id of a session that has
\* been idle for longer than the timeout returns an id different from the
\* expired one, bound to an empty new session, and get_all_session_ids does not
\* list an expired id.
C3_ExpiredIdGetsFreshId ==
    /\ (last.op = "get_or_create_session" /\ last.expired) =>
            /\ last.ret # last.id
            /\ sessions[last.ret] = Session(now)
    /\ ListedOnlyAlive

\* C3 amended: get_or_create_session called with the id of an expired session
\* drops the expired session and returns the SAME id, now bound to an empty new
\* session (no messages, no facts, last_activity = now); get_all_session_ids
\* lists no expired id and deletes the expired sessions.
C3_ExpiredIdIsReboundToEmptySession ==
    /\ (last.op = "get_or_create_session" /\ last.expired) =>
            /\ last.ret = last.id
            /\ sessions[last.ret] = Session(now)
    /\ ListedOnlyAlive

C3_Witness ==
    \/ last.op = "get_or_create_session" /\ last.expired
    \/ last.op = "get_all_session_ids" /\ last.stale # {}

\* C9: the orders, products and issues sequences of every session hold no
\* duplicate entry, and an add_message whose content was already appended to
\* the session before leaves the three sequences as they were.
C9_FactExtractionIdempotent ==
    /\ \A id \in DOMAIN sessions :
            /\ NoDuplicates(sessions[id].orders_discussed)
            /\ NoDuplicates(sessions[id].issues_mentioned)
            /\ NoDuplicates(sessions[id].products_discussed)
    /\ (last.op = "add_message" /\ ~last.raised /\ last.seen) =>
            Facts(sessions[last.id]) = last.before

C9_Witness ==
    /\ last.op = "add_message" /\ ~last.raised /\ last.seen
    /\ last.role = "user"
    /\ last.content.orders # <<>>
    /\ last.before.orders_discussed # <<>>

----------------------------------------------------------------------------
(* Planner (planning/planner.py) *)

Caps == {"order", "tech_support", "product", "solutions"}

\* Planner.agent_capabilities, in dict order
CapOrder == <<"order", "tech_support", "product", "solutions">>

agent_capabilities ==
    [order |->
        [keywords |-> {"order", "tracking", "delivery", "shipping", "return",
                       "refund", "warranty"},
         tools |-> {"order_tools", "tracking"},
         priority |-> 1],
     tech_support |->
        [keywords |-> {"not working", "broken", "fix", "troubleshoot", "support",
                       "help", "issue", "problem"},
         tools |-> {"knowledge_tools", "search_tools"},
         priority |-> 2],
     product |->
        [keywords |-> {"specs", "compare", "recommend", "alternative", "price",
                       "features", "which", "best"},
         tools |-> {"product_tools", "search_tools"},
         priority |-> 2],
     solutions |->
        [keywords |-> {"disappointed", "unsatisfied", "compensation", "exchange",
                       "solution", "resolve"},
         tools |-> {"knowledge_tools", "order_tools"},
         priority |-> 3]]

\* a handler result; has_confidence is FALSE when the dict has no "confidence"
\* key; each tool result is tagged with the step whose handler produced it
Result(response, agent_used, tool_results, confidence) ==
    [response |-> response, agent_used |-> agent_used, tool_results |-> tool_results,
     confidence |-> confidence, has_confidence |-> TRUE, error |-> FALSE]

NoResult == [Result(NoText, None, <<>>, 0) EXCEPT !.has_confidence = FALSE]

\* PlanStep.__init__
PlanStep(agent_type, depends_on, tools_required) ==
    [agent_type |-> agent_type, depends_on |-> depends_on,
     tools_required |-> tools_required, status |-> "pending", result |-> NoResult]

\* ExecutionPlan.__init__
\* (plan confidences are in hundredths)
ExecutionPlan(mode, steps) ==
    [execution_mode |-> mode, steps |-> steps, estimated_time |-> 0,
     confidence |-> 0, status |-> "created"]

create_step(agent_type) ==
    PlanStep(agent_type, {}, agent_capabilities[agent_type].tools)

RECURSIVE SetToSeq(_)
SetToSeq(S) ==
    IF S = {} THEN <<>>
    ELSE LET x == CHOOSE y \in S : TRUE IN <<x>> \o SetToSeq(S \ {x})

RECURSIVE Flatten(_)
Flatten(ss) == IF ss = <<>> THEN <<>> ELSE Head(ss) \o Flatten(Tail(ss))

\* the dependencies visited for one node: those of every step of that type
DepsOf(steps, step_type) ==
    Flatten([k \in 1..Len(steps) |->
                IF steps[k].agent_type = step_type
                THEN SetToSeq(steps[k].depends_on) ELSE <<>>])

\* has_cycle of _has_circular_dependencies, as a depth-first search that
\* threads visited and rec_stack: [cycle, visited, rec_stack]
RECURSIVE has_cycle_KeepStack(_, _, _)
RECURSIVE visit_deps_KeepStack(_, _, _)
has_cycle_KeepStack(steps, step_type, st) ==
    IF step_type \in st.rec_stack THEN [st EXCEPT !.cycle = TRUE]
    ELSE IF step_type \in st.visited THEN [st EXCEPT !.cycle = FALSE]
    ELSE visit_deps_KeepStack(steps, DepsOf(steps, step_type),
            [cycle |-> FALSE,
             visited |-> st.visited \cup {step_type},
             rec_stack |-> st.rec_stack \cup {step_type}])

visit_deps_KeepStack(steps, deps, st) ==
    IF deps = <<>> THEN [st EXCEPT !.cycle = FALSE]
    ELSE LET r == has_cycle_KeepStack(steps, Head(deps), st)
         IN  IF r.cycle THEN r ELSE visit_deps_KeepStack(steps, Tail(deps), r)

RECURSIVE has_cycle(_, _, _)
RECURSIVE visit_deps(_, _, _)
has_cycle(steps, step_type, st) ==
    IF step_type \in st.rec_stack THEN [st EXCEPT !.cycle = TRUE]
    ELSE IF step_type \in st.visited THEN [st EXCEPT !.cycle = FALSE]
    ELSE LET r == visit_deps(steps, DepsOf(steps, step_type),
                     [cycle |-> FALSE,
                      visited |-> st.visited \cup {step_type},
                      rec_stack |-> st.rec_stack \cup {step_type}])
         IN  IF r.cycle THEN r
             ELSE [r EXCEPT !.rec_stack = @ \ {step_type}]

visit_deps(steps, deps, st) ==
    IF deps = <<>> THEN [st EXCEPT !.cycle = FALSE]
    ELSE LET r == has_cycle(steps, Head(deps), st)
         IN  IF r.cycle THEN r ELSE visit_deps(steps, Tail(deps), r)

\* the loop over steps of _has_circular_dependencies, from step k on
RECURSIVE scan_for_cycle(_, _, _)
scan_for_cycle(steps, k, st) ==
    IF k > Len(steps) THEN FALSE
    ELSE IF steps[k].agent_type \in st.visited THEN scan_for_cycle(steps, k + 1, st)
    ELSE LET r == has_cycle(steps, steps[k].agent_type, st)
         IN  IF r.cycle THEN TRUE ELSE scan_for_cycle(steps, k + 1, r)

has_circular_dependencies(steps) ==
    scan_for_cycle(steps, 1, [cycle |-> FALSE, visited |-> {}, rec_stack |-> {}])

Issue(kind, agent, what) == [kind |-> kind, agent |-> agent, what |-> what]

NoStepsIssue == Issue("Plan has no execution steps", None, None)
CircularIssue == Issue("Plan has circular dependencies", None, None)

StepTypes(steps) == {steps[k].agent_type : k \in 1..Len(steps)}

\* a validation that returns at the first check that finds something
validate_plan_FirstCheckOnly(p) ==
    LET steps == p.steps
        missing == Flatten([k \in 1..Len(steps) |->
            LET deps == SetToSeq(steps[k].depends_on)
            IN  SelectSeq([j \in 1..Len(deps) |->
                              Issue("depends on a step which is not in the plan",
                                    steps[k].agent_type, deps[j])],
                          LAMBDA i : i.what \notin StepTypes(steps))])
        tools == Flatten([k \in 1..Len(steps) |->
            LET req_tools == SetToSeq(steps[k].tools_required)
            IN  SelectSeq([j \in 1..Len(req_tools) |->
                              Issue("requires unavailable tool",
                                    steps[k].agent_type, req_tools[j])],
                          LAMBDA i : i.what \notin
                              agent_capabilities[steps[k].agent_type].tools)])
        all == IF steps = <<>> THEN <<NoStepsIssue>>
               ELSE IF missing # <<>> THEN missing
               ELSE IF has_circular_dependencies(steps) THEN <<CircularIssue>>
               ELSE tools
    IN  [is_valid |-> Len(all) = 0, issues |-> all]

\* validate_plan: [is_valid, issues]
validate_plan(p) ==
    LET steps == p.steps
        empty == IF steps = <<>> THEN <<NoStepsIssue>> ELSE <<>>
        missing == Flatten([k \in 1..Len(steps) |->
            LET deps == SetToSeq(steps[k].depends_on)
            IN  SelectSeq([j \in 1..Len(deps) |->
                              Issue("depends on a step which is not in the plan",
                                    steps[k].agent_type, deps[j])],
                          LAMBDA i : i.what \notin StepTypes(steps))])
        circular == IF has_circular_dependencies(steps)
                    THEN <<CircularIssue>> ELSE <<>>
        tools == Flatten([k \in 1..Len(steps) |->
            LET req_tools == SetToSeq(steps[k].tools_required)
            IN  SelectSeq([j \in 1..Len(req_tools) |->
                              Issue("requires unavailable tool",
                                    steps[k].agent_type, req_tools[j])],
                          LAMBDA i : i.what \notin
                              agent_capabilities[steps[k].agent_type].tools)])
        all == empty \o missing \o circular \o tools
    IN  [is_valid |-> Len(all) = 0, issues |-> all]

----------------------------------------------------------------------------
(* validate_plan on its own: any plan over the four capabilities *)

MaxSteps == 2        \* steps of a plan handed to validate_plan
MaxDeps == 2         \* entries of one depends_on

DepSets(n) == {D \in SUBSET Caps : Cardinality(D) <= n}

AnyStepsOf(types, n, d) ==
    UNION {[1..k -> {PlanStep(a, D, agent_capabilities[a].tools) :
                        a \in types, D \in DepSets(d)}] : k \in 0..n}

AnySteps(n, d) == AnyStepsOf(Caps, n, d)

\* tools a hand-built step may name besides those _create_step gives it: one is
\* a tool of the order agent only, the other of the product agent only
ExtraTools == {"tracking", "product_tools"}

WithExtraTools(steps) ==
    [k \in 1..Len(steps) |-> [steps[k] EXCEPT !.tools_required = @ \cup ExtraTools]]

\* the order agent has one of the extra tools, the tech_support agent neither
ValPlans ==
    AnySteps(MaxSteps, MaxDeps)
        \cup {WithExtraTools(s) :
                 s \in AnyStepsOf({"order", "tech_support"}, MaxSteps, MaxDeps)}

ValInit ==
    /\ sessions = [k \in {} |-> Session(0)]
    /\ now = 0
    /\ last = NoCall
    /\ llm = "unconfigured"
    /\ handlers = "agents"
    /\ pc = "created"
    /\ req = NoText
    /\ sid = None
    /\ context = EmptyContext
    /\ plan \in {ExecutionPlan("conditional", s) : s \in ValPlans}
    /\ validation = [is_valid |-> TRUE, issues |-> <<>>]
    /\ final = NoFinal
    /\ returned = NoReturn
    /\ IdleExec
    /\ inflight = <<>>

ValValidate ==
    /\ pc = "created"
    /\ validation' = validate_plan(plan)
    /\ pc' = "validated"
    /\ UNCHANGED <<storeVars, llm, handlers, inflight, req, sid, context, plan, final, returned,
                   execVars>>

ValNext == ValValidate

SpecValidate == ValInit /\ [][ValNext]_vars

\* an edge a -> d of the capability graph: some step of type a depends on d
CapEdge(steps, a, d) ==
    \E k \in 1..Len(steps) : steps[k].agent_type = a /\ d \in steps[k].depends_on

\* d is reached from a by a path of at least one and at most n edges
RECURSIVE CapPath(_, _, _, _)
CapPath(steps, a, d, n) ==
    /\ n > 0
    /\ \/ CapEdge(steps, a, d)
       \/ \E m \in Caps : CapEdge(steps, a, m) /\ CapPath(steps, m, d, n - 1)

CapGraphHasCycle(steps) == \E a \in Caps : CapPath(steps, a, a, Cardinality(Caps))

MutualPair(steps) ==
    \E a, b \in Caps : a # b /\ CapEdge(steps, a, b) /\ CapEdge(steps, b, a)

\* C5: a plan with a step A depending on B and a step B depending on A
\* (A # B) fails validation with a circular-dependency issue, and a plan whose
\* capability graph has no cycle gets no circular-dependency issue.
C5_CycleDetection ==
    pc = "validated" =>
        /\ MutualPair(plan.steps) =>
              ~validation.is_valid /\ CircularIssue \in Range(validation.issues)
        /\ ~CapGraphHasCycle(plan.steps) =>
              CircularIssue \notin Range(validation.issues)

C5_Witness ==
    /\ pc = "validated"
    /\ MutualPair(plan.steps)
    /\ CircularIssue \in Range(validation.issues)

C5_WitnessAcyclic ==
    /\ pc = "validated"
    /\ ~CapGraphHasCycle(plan.steps)
    /\ \E k \in 1..Len(plan.steps) : plan.steps[k].depends_on # {}

----------------------------------------------------------------------------
(* Handlers (agents/base_agent.py and the four agents) *)

\* what one call of the generative backend gives
GenOutcomes ==
    IF llm = "unconfigured" THEN {[kind |-> "no_client", text |-> NoText]}
    ELSE IF llm = "failing" THEN {[kind |-> "error", text |-> NoText]}
    ELSE {[kind |-> "error", text |-> NoText],
          [kind |-> "none_content", text |-> NoText]}
         \cup {[kind |-> "text", text |-> t] :
                  t \in {Txt("llm", "empty", {}, <<>>, {}, {}),
                         [Txt("llm", "long", {}, <<>>, {}, {})
                             EXCEPT !.specific = TRUE]}}

estimate_confidence(response) ==
    IF response.len = "long" /\ response.specific THEN 9
    ELSE IF response.len \in {"medium", "long"} THEN 7
    ELSE 5

MockText(agent_type) ==
    CASE agent_type = "order" -> Txt("mock order", "medium", {"order", "help"}, <<>>, {}, {})
      [] agent_type = "tech_support" ->
            Txt("mock tech_support", "short", {"help", "troubleshoot", "issue", "problem"},
                <<>>, {}, {})
      [] agent_type = "product" ->
            Txt("mock product", "medium", {"help", "compare", "best"}, <<>>, {}, {})
      [] agent_type = "solutions" ->
            Txt("mock solutions", "medium", {"help", "return", "exchange", "solution"},
                <<>>, {}, {})
      [] OTHER -> Txt("I'm here to help with your request.", "short", {"help"}, <<>>, {}, {})

\* _generate_mock_response: [response, confidence]
generate_mock_response(agent_type) ==
    [response |-> MockText(agent_type), confidence |-> 6]

\* generate_response: the mock response stands in when there is no client, when
\* the call fails and when _estimate_confidence fails on a None content
generate_response(agent_type, gen) ==
    IF gen.kind = "text"
    THEN [response |-> gen.text, confidence |-> estimate_confidence(gen.text)]
    ELSE generate_mock_response(agent_type)

ToolResults(names, k) == [j \in 1..Len(names) |-> [tool |-> names[j], by |-> k]]

\* OrderAgent._extract_order_id
extract_order_id(message, ctx) ==
    IF message.orders # <<>> THEN Head(message.orders)
    ELSE IF ctx.orders_discussed # <<>>
    THEN ctx.orders_discussed[Len(ctx.orders_discussed)]
    ELSE None

\* OrderAgent.process_request; fault: an exception inside the handler's try
OrderAgent(message, ctx, k, fault) ==
    LET order_id == extract_order_id(message, ctx)
    IN  IF fault
        THEN Result(Txt("order: trouble accessing order information", "medium",
                        {"order"}, <<>>, {}, {}), "order", <<>>, 3)
        ELSE IF order_id = None
        THEN Result(Txt("order: please share your order ID (for example: order #12345)",
                        "medium", {"order", "help"}, <<"12345">>, {}, {}),
                    "order", <<>>, 4)
        ELSE IF order_id \notin KnownOrders
        THEN Result(Txt("order: could not find any order with that ID", "medium",
                        {"order"}, <<>>, {}, {}), "order", <<>>, 5)
        ELSE Result(Txt("order: here are the details for order #", "long",
                        {"order", "delivery", "warranty"}, <<order_id>>, {},
                        {"techbook", "pro 15"}),
                    "order",
                    ToolResults(<<"get_order_info">>
                                \o (IF "refund" \in message.words
                                    THEN <<"initiate_return">> ELSE <<>>), k),
                    9)

Apology(agent_type) ==
    CASE agent_type = "tech_support" ->
            [Txt("tech_support: let me help you troubleshoot", "medium",
                 {"help", "troubleshoot", "issue", "problem"}, <<>>, {}, {})
                EXCEPT !.specific = TRUE]
      [] agent_type = "product" ->
            Txt("product: which product are you interested in", "medium",
                {"help", "which"}, <<>>, {}, {})
      [] agent_type = "solutions" ->
            Txt("solutions: please provide more details", "medium",
                {"help", "issue", "solution"}, <<>>, {}, {})

AgentTools(agent_type, tooled) ==
    CASE agent_type = "tech_support" -> <<"search_knowledge">>
      [] agent_type = "product" -> IF tooled THEN <<"product_tool">> ELSE <<>>
      [] agent_type = "solutions" -> <<"resolution_tool">>

\* TechSupportAgent / ProductAgent / SolutionsAgent.process_request followed by
\* format_final_response; tooled: the product request is of a type that
\* calls a tool (the other two always call at least one)
LlmAgent(agent_type, k, fault, tooled, gen) ==
    IF fault THEN Result(Apology(agent_type), agent_type, <<>>, 4)
    ELSE LET r == generate_response(agent_type, gen)
         IN  Result(r.response, agent_type,
                    ToolResults(AgentTools(agent_type, tooled), k), r.confidence)

\* what the handler of step k may do: return a result, or (a stub) raise
AgentOutcomes(agent_type, message, ctx, k) ==
    IF agent_type = "order"
    THEN {[kind |-> "result", result |-> OrderAgent(message, ctx, k, fault)] :
             fault \in BOOLEAN}
    ELSE {[kind |-> "result", result |-> LlmAgent(agent_type, k, fault, tooled, gen)] :
             fault \in BOOLEAN,
             tooled \in IF agent_type = "product" THEN BOOLEAN ELSE {TRUE},
             gen \in GenOutcomes}

StubText == Txt("stub", "short", {}, <<>>, {}, {})

StubOutcomes(agent_type, k) ==
    {[kind |-> "result",
      result |-> Result(StubText, agent_type,
                        IF tooled THEN ToolResults(<<"tool">>, k) ELSE <<>>, 6)] :
         tooled \in BOOLEAN}
    \cup {[kind |-> "raise", result |-> NoResult]}

Outcomes(agent_type, message, ctx, k) ==
    IF handlers = "stub" THEN StubOutcomes(agent_type, k)
    ELSE AgentOutcomes(agent_type, message, ctx, k)

\* the context dict after a handler ran on it: the handlers merge their tool
\* results into a copy ({**context, "tool_results": ...}), never into the dict
\* they were given
HandlerContextAfter_InPlace(ctx, result) ==
    [ctx EXCEPT !.tool_results = result.tool_results]

HandlerContextAfter(ctx, result) == ctx

----------------------------------------------------------------------------
(* Orchestrator._execute_plan (agents/orchestrator.py) *)

\* the dict appended for a step whose handler raised (no "confidence" key)
ErrorResult(agent_type) ==
    [response |-> Txt("Error in agent", "short", {}, <<>>, {}, {}),
     agent_used |-> agent_type, tool_results |-> <<>>, confidence |-> 0,
     has_confidence |-> FALSE, error |-> TRUE]

\* "if result.get("tool_results"): accumulated_context["previous_results"] = ..."
update_accumulated_Never(ctx, result) == ctx

update_accumulated(ctx, result) ==
    IF result.tool_results # <<>>
    THEN [ctx EXCEPT !.previous_results = result.tool_results]
    ELSE ctx

NSteps == Len(plan.steps)

Call(k, ctx) == [step |-> k, agent |-> plan.steps[k].agent_type, ctx |-> ctx]

NoTask == [state |-> "created", outcome |-> [kind |-> "none", result |-> NoResult],
           ctx_start |-> EmptyContext, ctx_end |-> EmptyContext, late |-> FALSE]

ExecInitVars ==
    /\ results' = <<>>
    /\ completed_agents' = {}
    /\ progress_made' = FALSE
    /\ rounds' = 0
    /\ calls' = <<[step |-> 0, agent |-> "orchestrator", ctx |-> context]>>

\* SEQUENTIAL -------------------------------------------------------------

SeqBegin ==
    /\ pc = "execute" /\ plan.execution_mode = "sequential"
    /\ ExecInitVars
    /\ accumulated_context' = context
    /\ idx' = 1
    /\ tasks' = <<>>
    /\ pc' = "seq_step"
    /\ UNCHANGED <<storeVars, llm, handlers, inflight, req, sid, context, plan, validation,
                   final, returned>>

SeqStart ==
    /\ pc = "seq_step" /\ idx <= NSteps
    /\ plan' = [plan EXCEPT !.steps[idx].status = "running"]
    /\ calls' = Append(calls, Call(idx, accumulated_context))
    /\ pc' = "seq_wait"
    /\ UNCHANGED <<storeVars, llm, handlers, inflight, req, sid, context, validation, final,
                   returned, results, accumulated_context, completed_agents,
                   progress_made, idx, rounds, tasks>>

\* a sequential loop that gives up at the first handler that raises
SeqFinish_AbortOnFailure ==
    /\ pc = "seq_wait"
    /\ \E o \in Outcomes(plan.steps[idx].agent_type, req, accumulated_context, idx) :
          IF o.kind = "result"
          THEN /\ plan' = [plan EXCEPT !.steps[idx].status = "completed",
                                       !.steps[idx].result = o.result]
               /\ results' = Append(results, o.result)
               /\ accumulated_context' =
                      update_accumulated(
                          HandlerContextAfter(accumulated_context, o.result), o.result)
               /\ idx' = idx + 1
          ELSE /\ plan' = [plan EXCEPT !.steps[idx].status = "failed"]
               /\ results' = Append(results, ErrorResult(plan.steps[idx].agent_type))
               /\ idx' = NSteps + 1
               /\ UNCHANGED accumulated_context
    /\ pc' = "seq_step"
    /\ UNCHANGED <<storeVars, llm, handlers, inflight, req, sid, context, validation,
                   final, returned, completed_agents, progress_made, rounds, tasks,
                   calls>>

SeqFinish ==
    /\ pc = "seq_wait"
    /\ \E o \in Outcomes(plan.steps[idx].agent_type, req, accumulated_context, idx) :
          IF o.kind = "result"
          THEN /\ plan' = [plan EXCEPT !.steps[idx].status = "completed",
                                       !.steps[idx].result = o.result]
               /\ results' = Append(results, o.result)
               /\ accumulated_context' =
                      update_accumulated(
                          HandlerContextAfter(accumulated_context, o.result), o.result)
          ELSE /\ plan' = [plan EXCEPT !.steps[idx].status = "failed"]
               /\ results' = Append(results, ErrorResult(plan.steps[idx].agent_type))
               /\ UNCHANGED accumulated_context
    /\ idx' = idx + 1
    /\ pc' = "seq_step"
    /\ UNCHANGED <<storeVars, llm, handlers, inflight, req, sid, context, validation, final,
                   returned, completed_agents, progress_made, rounds, tasks, calls>>

SeqDone ==
    /\ pc = "seq_step" /\ idx > NSteps
    /\ plan' = [plan EXCEPT !.status = "completed"]
    /\ pc' = "executed"
    /\ UNCHANGED <<storeVars, llm, handlers, inflight, req, sid, context, validation, final,
                   returned, execVars>>

\* PARALLEL ---------------------------------------------------------------

ParBegin ==
    /\ pc = "execute" /\ plan.execution_mode = "parallel"
    /\ ExecInitVars
    /\ accumulated_context' = EmptyContext
    /\ tasks' = [k \in 1..NSteps |-> NoTask]
    /\ idx' = 1
    /\ pc' = "par_loop"
    /\ UNCHANGED <<storeVars, llm, handlers, inflight, req, sid, context, plan, validation,
                   final, returned>>

\* "step.status = "running"; result = await task"
ParAwait ==
    /\ pc = "par_loop" /\ idx <= NSteps
    /\ plan' = [plan EXCEPT !.steps[idx].status = "running"]
    /\ pc' = "par_wait"
    /\ UNCHANGED <<storeVars, llm, handlers, inflight, req, sid, context, validation, final,
                   returned, execVars>>

\* a created task starts once _execute_plan is suspended in an await
TaskStart ==
    \E k \in 1..Len(tasks) :
        /\ pc = "par_wait" /\ tasks[k].state = "created"
        /\ tasks' = [tasks EXCEPT
                        ![k].state = "running",
                        ![k].ctx_start = context,
                        ![k].late = \E j \in 1..Len(tasks) :
                                       /\ tasks[j].state = "done"
                                       /\ tasks[j].outcome.result.tool_results # <<>>]
        /\ UNCHANGED <<storeVars, reqVars, results, accumulated_context,
                       completed_agents, progress_made, idx, rounds, calls>>

TaskFinish ==
    \E k \in 1..Len(tasks) :
        /\ pc = "par_wait" /\ tasks[k].state = "running"
        /\ \E o \in Outcomes(plan.steps[k].agent_type, req, context, k) :
              /\ tasks' = [tasks EXCEPT ![k].state = "done", ![k].outcome = o,
                                        ![k].ctx_end = context]
              /\ context' = IF o.kind = "result"
                            THEN HandlerContextAfter(context, o.result) ELSE context
        /\ UNCHANGED <<storeVars, llm, handlers, inflight, pc, req, sid, plan, validation, final,
                       returned, results, accumulated_context, completed_agents,
                       progress_made, idx, rounds, calls>>

ParResume ==
    /\ pc = "par_wait" /\ tasks[idx].state = "done"
    /\ LET o == tasks[idx].outcome
       IN  IF o.kind = "result"
           THEN /\ plan' = [plan EXCEPT !.steps[idx].status = "completed",
                                        !.steps[idx].result = o.result]
                /\ results' = Append(results, o.result)
           ELSE /\ plan' = [plan EXCEPT !.steps[idx].status = "failed"]
                /\ results' = Append(results, ErrorResult(plan.steps[idx].agent_type))
    /\ idx' = idx + 1
    /\ pc' = "par_loop"
    /\ UNCHANGED <<storeVars, llm, handlers, inflight, req, sid, context, validation, final,
                   returned, accumulated_context, completed_agents, progress_made,
                   rounds, tasks, calls>>

ParDone ==
    /\ pc = "par_loop" /\ idx > NSteps
    /\ plan' = [plan EXCEPT !.status = "completed"]
    /\ pc' = "executed"
    /\ UNCHANGED <<storeVars, llm, handlers, inflight, req, sid, context, validation, final,
                   returned, execVars>>

\* CONDITIONAL ------------------------------------------------------------

CondBegin ==
    /\ pc = "execute" /\ plan.execution_mode = "conditional"
    /\ ExecInitVars
    /\ accumulated_context' = context
    /\ idx' = 0
    /\ tasks' = <<>>
    /\ pc' = "cond_while"
    /\ UNCHANGED <<storeVars, llm, handlers, inflight, req, sid, context, plan, validation,
                   final, returned>>

\* "while len(completed_agents) < len(plan.steps): progress_made = False"
CondEnterRound ==
    /\ pc = "cond_while" /\ Cardinality(completed_agents) < NSteps
    /\ progress_made' = FALSE
    /\ idx' = 1
    /\ rounds' = rounds + 1
    /\ pc' = "cond_scan"
    /\ UNCHANGED <<storeVars, llm, handlers, inflight, req, sid, context, plan, validation,
                   final, returned, results, accumulated_context,
                   completed_agents, tasks, calls>>

CondExit ==
    /\ pc = "cond_while" /\ ~(Cardinality(completed_agents) < NSteps)
    /\ plan' = [plan EXCEPT !.status = "completed"]
    /\ pc' = "executed"
    /\ UNCHANGED <<storeVars, llm, handlers, inflight, req, sid, context, validation, final,
                   returned, execVars>>

\* the test of the conditional loop without its dependency half
Ready_IgnoreDeps(k) == plan.steps[k].agent_type \notin completed_agents

Ready(k) ==
    /\ plan.steps[k].agent_type \notin completed_agents
    /\ plan.steps[k].depends_on \subseteq completed_agents

\* one step of "for step in plan.steps": a step that is not ready is passed over
CondVisit ==
    /\ pc = "cond_scan" /\ idx <= NSteps
    /\ IF Ready(idx)
       THEN /\ plan' = [plan EXCEPT !.steps[idx].status = "running"]
            /\ calls' = Append(calls, Call(idx, accumulated_context))
            /\ pc' = "cond_wait"
            /\ UNCHANGED idx
       ELSE /\ idx' = idx + 1
            /\ UNCHANGED <<plan, calls, pc>>
    /\ UNCHANGED <<storeVars, llm, handlers, inflight, req, sid, context, validation, final,
                   returned, results, accumulated_context, completed_agents,
                   progress_made, rounds, tasks>>

\* a conditional loop that leaves a failed step to be tried again
CondFinish_RetryFailed ==
    /\ pc = "cond_wait"
    /\ \E o \in Outcomes(plan.steps[idx].agent_type, req, accumulated_context, idx) :
          IF o.kind = "result"
          THEN /\ plan' = [plan EXCEPT !.steps[idx].status = "completed",
                                       !.steps[idx].result = o.result]
               /\ results' = Append(results, o.result)
               /\ accumulated_context' =
                      update_accumulated(
                          HandlerContextAfter(accumulated_context, o.result), o.result)
               /\ completed_agents' = completed_agents \cup {plan.steps[idx].agent_type}
          ELSE /\ plan' = [plan EXCEPT !.steps[idx].status = "failed"]
               /\ UNCHANGED <<results, accumulated_context, completed_agents>>
    /\ progress_made' = TRUE
    /\ idx' = idx + 1
    /\ pc' = "cond_scan"
    /\ UNCHANGED <<storeVars, llm, handlers, inflight, req, sid, context, validation, final,
                   returned, rounds, tasks, calls>>

CondFinish ==
    /\ pc = "cond_wait"
    /\ \E o \in Outcomes(plan.steps[idx].agent_type, req, accumulated_context, idx) :
          IF o.kind = "result"
          THEN /\ plan' = [plan EXCEPT !.steps[idx].status = "completed",
                                       !.steps[idx].result = o.result]
               /\ results' = Append(results, o.result)
               /\ accumulated_context' =
                      update_accumulated(
                          HandlerContextAfter(accumulated_context, o.result), o.result)
          ELSE /\ plan' = [plan EXCEPT !.steps[idx].status = "failed"]
               /\ UNCHANGED <<results, accumulated_context>>
    /\ completed_agents' = completed_agents \cup {plan.steps[idx].agent_type}
    /\ progress_made' = TRUE
    /\ idx' = idx + 1
    /\ pc' = "cond_scan"
    /\ UNCHANGED <<storeVars, llm, handlers, inflight, req, sid, context, validation, final,
                   returned, rounds, tasks, calls>>

\* the end of the for loop without "if not progress_made: break"
CondEndScan_NoBreak ==
    /\ pc = "cond_scan" /\ idx > NSteps
    /\ pc' = "cond_while"
    /\ UNCHANGED <<storeVars, llm, handlers, inflight, req, sid, context, plan,
                   validation, final, returned, execVars>>

\* end of the for loop: "if not progress_made: break"
CondEndScan ==
    /\ pc = "cond_scan" /\ idx > NSteps
    /\ IF progress_made
       THEN pc' = "cond_while" /\ UNCHANGED plan
       ELSE plan' = [plan EXCEPT !.status = "completed"] /\ pc' = "executed"
    /\ UNCHANGED <<storeVars, llm, handlers, inflight, req, sid, context, validation, final,
                   returned, execVars>>

ExecSeqPar ==
    \/ SeqBegin \/ SeqStart \/ SeqFinish \/ SeqDone
    \/ ParBegin \/ ParAwait \/ TaskStart \/ TaskFinish \/ ParResume \/ ParDone

ExecCond ==
    \/ CondBegin \/ CondEnterRound \/ CondExit \/ CondVisit \/ CondFinish
    \/ CondEndScan

----------------------------------------------------------------------------
(* _execute_plan on its own: any plan, handlers that are any implementation *)
(* of BaseAgent.process_request (they may return tool results or none, or   *)
(* raise)                                                                   *)

MaxExecSteps == 3    \* steps of a plan handed to _execute_plan

StubRequest == Txt("request", "short", {}, <<>>, {}, {})

ExecInitWith(modes, steps) ==
    /\ sessions = [k \in {} |-> Session(0)]
    /\ now = 0
    /\ last = NoCall
    /\ llm = "unconfigured"
    /\ handlers = "stub"
    /\ pc = "execute"
    /\ req = StubRequest
    /\ sid = None
    /\ context = EmptyContext
    /\ plan \in {ExecutionPlan(m, s) : m \in modes, s \in steps}
    /\ validation = [is_valid |-> TRUE, issues |-> <<>>]
    /\ final = NoFinal
    /\ returned = NoReturn
    /\ IdleExec
    /\ inflight = <<>>

\* sequential and parallel mode read neither depends_on nor, with handlers that
\* are stubs, the agent type
ExecInit ==
    ExecInitWith({"sequential", "parallel"},
                 AnyStepsOf({"order", "product"}, MaxExecSteps, 0))

SpecExec == ExecInit /\ [][ExecSeqPar]_vars

MaxCondDeps == 1     \* dependencies of a step of a conditional plan

CondInit == ExecInitWith({"conditional"}, AnySteps(MaxExecSteps, MaxCondDeps))

SpecCond == CondInit /\ [][ExecCond]_vars

ToolsSeen(ctx) == Range(ctx.previous_results) \cup Range(ctx.tool_results)

\* the tool results of the latest of the steps 1..k-1 that produced any
RECURSIVE LatestToolResults(_)
LatestToolResults(k) ==
    IF k = 0 THEN context.previous_results
    ELSE IF results[k].tool_results # <<>> THEN results[k].tool_results
    ELSE LatestToolResults(k - 1)

SeqCalls == plan.execution_mode = "sequential" /\ pc \in {"seq_step", "seq_wait", "executed"}

\* handlers are invoked one at a time, in the order of plan.steps
InDeclaredOrder ==
    /\ \A i \in 2..Len(calls) : calls[i].step = i - 1
    /\ Len(calls) - 1 = (IF pc = "seq_wait" THEN idx ELSE idx - 1)
    /\ \A k \in 1..NSteps :
          (plan.steps[k].status = "running") <=> (pc = "seq_wait" /\ k = idx)

\* C7 (as stated): in sequential mode the handlers are invoked one at a time in
\* plan order, and every step after the first is invoked with a context that
\* holds the tool results of all the predecessor steps that produced any.
C7_SeesAllPredecessorResults ==
    SeqCalls =>
        /\ InDeclaredOrder
        /\ \A i \in 3..Len(calls) : \A j \in 1..(calls[i].step - 1) :
              Range(results[j].tool_results) \subseteq ToolsSeen(calls[i].ctx)

\* C7 (amended): in sequential mode the handlers are invoked one at a time in
\* plan order, and every step after the first is invoked with a context whose
\* previous_results are the tool results of the latest predecessor step that
\* produced any (those of earlier predecessors are replaced).
C7_SeesLatestPredecessorResults ==
    SeqCalls =>
        /\ InDeclaredOrder
        /\ \A i \in 3..Len(calls) :
              /\ calls[i].ctx.previous_results = LatestToolResults(calls[i].step - 1)
              /\ calls[i].ctx.tool_results = context.tool_results

C7_Witness ==
    /\ SeqCalls /\ pc = "executed" /\ NSteps = 3
    /\ results[1].tool_results # <<>>
    /\ results[2].tool_results # <<>>
    /\ calls[4].ctx.previous_results = results[2].tool_results

\* C8: in parallel mode every handler is invoked with the original request
\* context, and whatever the interleaving of the tasks no handler sees, when it
\* starts or while it runs, a tool result produced by another step.
C8_ParallelIsolation ==
    plan.execution_mode = "parallel" =>
        /\ \A k \in 1..Len(tasks) :
              /\ tasks[k].state # "created" => tasks[k].ctx_start = calls[1].ctx
              /\ \A t \in ToolsSeen(tasks[k].ctx_start) : t.by = k
              /\ \A t \in ToolsSeen(tasks[k].ctx_end) : t.by = k

\* a task started after another one had finished with tool results
C8_Witness ==
    /\ plan.execution_mode = "parallel" /\ pc = "executed"
    /\ \E k \in 1..Len(tasks) : tasks[k].late /\ tasks[k].outcome.kind = "result"

DepsNamed(steps) == \A k \in 1..Len(steps) : steps[k].depends_on \subseteq StepTypes(steps)

\* C6: in conditional mode, for an acyclic plan whose dependencies all name
\* steps of the plan, execution ends after at most as many scan rounds as there
\* are steps, and at the end every step has been run.
C6_ConditionalRunsEveryStep ==
    (/\ plan.execution_mode = "conditional" /\ pc = "executed"
     /\ ~has_circular_dependencies(plan.steps) /\ DepsNamed(plan.steps))
    => /\ rounds <= NSteps
       /\ \A k \in 1..NSteps : plan.steps[k].status \in {"completed", "failed"}

\* the part of C6 that holds: the number of scan rounds
C6_RoundsBounded ==
    plan.execution_mode = "conditional" => rounds <= IF NSteps = 0 THEN 0 ELSE NSteps

----------------------------------------------------------------------------
(* Planner.create_plan (planning/planner.py) *)

\* planner words ("keyword in request_lower") that the requests are built from
MinOf(a, b) == IF a <= b THEN a ELSE b

Vocab == {"order", "help", "compare", "alternative", "resolve", "and"}

\* the request of test_planning_system
TestRequest ==
    Txt("My laptop order #12345 won't turn on, I need help!", "short",
        {"order", "help"}, <<"12345">>, {"won't turn on"}, {"laptop"})

\* a request that matches the order-number pattern contains "order"
Requests ==
    {TestRequest} \cup
    {r \in {[Txt("request", "short", w, o, {}, {}) EXCEPT !.wordy = c] :
                w \in {W \in SUBSET Vocab : Cardinality(W) <= MaxWords},
                o \in {<<>>} \cup {<<id>> : id \in OrderIds},
                c \in BOOLEAN} :
        r.orders # <<>> => "order" \in r.words}

Score(agent_type, request, ctx) ==
    Cardinality(request.words \cap agent_capabilities[agent_type].keywords)
    + (IF agent_type = "order" /\ ctx.orders_discussed # <<>> THEN 2 ELSE 0)
    + (IF agent_type = "product" /\ ctx.products_discussed # <<>> THEN 1 ELSE 0)

\* max(agent_scores.items(), key=score): the first agent with the highest score
BestAgent(request, ctx) ==
    LET top == CHOOSE m \in 0..(Cardinality(Vocab) + 3) :
                   /\ \E a \in Caps : Score(a, request, ctx) = m
                   /\ \A a \in Caps : Score(a, request, ctx) <= m
        k == CHOOSE i \in 1..Len(CapOrder) :
                   /\ Score(CapOrder[i], request, ctx) = top
                   /\ \A j \in 1..(i - 1) : Score(CapOrder[j], request, ctx) # top
    IN  CapOrder[k]

\* list.sort(key=priority): stable
SortByPriority(agents) ==
    SelectSeq(agents, LAMBDA a : agent_capabilities[a].priority = 1)
    \o SelectSeq(agents, LAMBDA a : agent_capabilities[a].priority = 2)
    \o SelectSeq(agents, LAMBDA a : agent_capabilities[a].priority = 3)

\* an analysis that always returns the one best-scoring agent
analyze_request_BestOnly(request, ctx) == <<BestAgent(request, ctx)>>

analyze_request(request, ctx) ==
    LET above == SelectSeq(CapOrder, LAMBDA a : Score(a, request, ctx) > 0)
    IN  SortByPriority(IF above = <<>> THEN <<BestAgent(request, ctx)>> ELSE above)

\* _is_complex_request without its first indicator (order and a problem word)
is_complex_request_NoOrderRule(request) ==
    \/ request.wordy
    \/ request.questions
    \/ request.words \cap {"and", "also", "plus", "additionally"} # {}

is_complex_request(request) ==
    \/ "order" \in request.words
         /\ request.words \cap {"not working", "broken", "help"} # {}
    \/ request.wordy
    \/ request.questions
    \/ request.words \cap {"and", "also", "plus", "additionally"} # {}

WithDeps(step, deps) == [step EXCEPT !.depends_on = deps]

create_complex_plan(request, agents) ==
    IF "order" \in Range(agents) /\ "tech_support" \in Range(agents)
    THEN <<create_step("order"), WithDeps(create_step("tech_support"), {"order"})>>
         \o (IF request.words \cap {"help", "frustrated", "problem", "issue"} # {}
             THEN <<WithDeps(create_step("solutions"), {"tech_support"})>>
             ELSE <<>>)
    ELSE IF /\ "product" \in Range(agents)
            /\ request.words \cap {"other", "alternative", "different"} # {}
    THEN <<create_step("product"), WithDeps(create_step("product"), {"product"})>>
    ELSE [i \in 1..Len(agents) |->
             IF i > 1 THEN WithDeps(create_step(agents[i]), {agents[i - 1]})
             ELSE create_step(agents[i])]

RECURSIVE SumStepTimes(_, _)
SumStepTimes(steps, k) ==
    IF k = 0 THEN 0
    ELSE SumStepTimes(steps, k - 1) + 3 + Cardinality(steps[k].tools_required) * 2

estimate_execution_time(steps) == MinOf(SumStepTimes(steps, Len(steps)), 30)

estimate_plan_confidence(steps, ctx) ==
    LET base_confidence ==
            70 + (IF /\ ctx.orders_discussed # <<>>
                     /\ \E k \in 1..Len(steps) : steps[k].agent_type = "order"
                  THEN 10 ELSE 0)
               + (IF Len(steps) = 1 THEN 10 ELSE 0)
               - (IF Len(steps) > 3 THEN 10 ELSE 0)
    IN  MinOf(IF base_confidence >= 30 THEN base_confidence ELSE 30, 95)

\* a fallback plan without its step
create_fallback_plan_NoStep ==
    [ExecutionPlan("sequential", <<>>) EXCEPT
        !.estimated_time = 10, !.confidence = 50, !.status = "fallback"]

create_fallback_plan ==
    [ExecutionPlan("sequential", <<create_step("tech_support")>>) EXCEPT
        !.estimated_time = 10, !.confidence = 50, !.status = "fallback"]

\* raises: something in the try block raised (a request that is not a string,
\* a context that is not a dict)
create_plan(request, ctx, raises) ==
    IF raises THEN create_fallback_plan ELSE
    LET required_agents == analyze_request(request, ctx)
        p == IF Len(required_agents) = 1
             THEN ExecutionPlan("sequential", <<create_step(required_agents[1])>>)
             ELSE IF is_complex_request(request)
             THEN ExecutionPlan("conditional",
                                create_complex_plan(request, required_agents))
             ELSE ExecutionPlan("parallel",
                                [i \in 1..Len(required_agents) |->
                                    create_step(required_agents[i])])
    IN  [p EXCEPT !.estimated_time = estimate_execution_time(p.steps),
                  !.confidence = estimate_plan_confidence(p.steps, ctx),
                  !.status = "ready"]

----------------------------------------------------------------------------
(* Request pipeline: main.chat and Orchestrator.process_request *)

LastN_All(seq, n) == seq

LastN(seq, n) == IF Len(seq) > n THEN SubSeq(seq, Len(seq) - n + 1, Len(seq)) ELSE seq

\* get_context_for_agents: [context, store]; {} when the session is gone
get_context_for_agents(store, id, t) ==
    LET g == get_session(store, id, t)
    IN  IF ~g.found THEN [context |-> EmptyContext, store |-> g.store]
        ELSE LET session == g.store[id]
                 recent == LastN(session.messages, 5)
             IN  [context |->
                      [EmptyContext EXCEPT
                          !.session_id = id,
                          !.shares_lists = TRUE,
                          !.facts_when_taken = Facts(session),
                          !.issues_mentioned = session.issues_mentioned,
                          !.orders_discussed = session.orders_discussed,
                          !.products_discussed = session.products_discussed,
                          !.recent_conversation =
                              [i \in 1..Len(recent) |->
                                  [role |-> recent[i].role, content |-> recent[i].content]],
                          !.conversation_length = Len(session.messages)],
                  store |-> g.store]


\* r.get("confidence", default)
ConfidenceOr(r, default) == IF r.has_confidence THEN r.confidence ELSE default

\* max(agent_results, key=...): the first result with the highest key
BestResult(agent_results, default) ==
    LET k == CHOOSE i \in 1..Len(agent_results) :
                /\ \A j \in 1..Len(agent_results) :
                      ConfidenceOr(agent_results[j], default)
                          <= ConfidenceOr(agent_results[i], default)
                /\ \A j \in 1..(i - 1) :
                      ConfidenceOr(agent_results[j], default)
                          < ConfidenceOr(agent_results[i], default)
    IN  agent_results[k]

ApologyText(id) == Txt(id, "medium", {}, <<>>, {}, {})

create_fallback_response(agent_results) ==
    IF agent_results = <<>>
    THEN [response |-> ApologyText("I apologize, but I'm having trouble processing your request"),
          confidence |-> 3, path |-> "fallback", plan_steps |-> <<>>]
    ELSE LET best_result == BestResult(agent_results, 0)
         IN  [response |-> best_result.response,
              confidence |-> ConfidenceOr(best_result, 5),
              path |-> "fallback", plan_steps |-> <<>>]

\* plan_executed["steps"] with every step reported as completed
plan_executed_steps_AllCompleted(p) ==
    [k \in 1..Len(p.steps) |->
        [agent |-> p.steps[k].agent_type, status |-> "completed"]]

\* plan_executed["steps"] of the synthesized result
plan_executed_steps(p) ==
    [k \in 1..Len(p.steps) |->
        [agent |-> p.steps[k].agent_type, status |-> p.steps[k].status]]

\* a synthesis that reports the confidence of the synthesis call alone
synthesize_response_OwnConfidence(agent_results, p, gen, raised) ==
    IF raised THEN create_fallback_response(agent_results)
    ELSE LET synthesis_response == generate_response("orchestrator", gen)
         IN  [response |-> synthesis_response.response,
              confidence |-> synthesis_response.confidence,
              path |-> "synthesis", plan_steps |-> plan_executed_steps(p)]

\* _synthesize_response; raised: something inside its try block raised
synthesize_response(agent_results, p, gen, raised) ==
    IF raised THEN create_fallback_response(agent_results)
    ELSE LET synthesis_response == generate_response("orchestrator", gen)
         IN  [response |-> synthesis_response.response,
              confidence |->
                  MinOf(synthesis_response.confidence,
                        IF agent_results = <<>> THEN 5
                        ELSE ConfidenceOr(BestResult(agent_results, 5), 5)),
              path |-> "synthesis", plan_steps |-> plan_executed_steps(p)]

\* process_request without its "except Exception": the exception reaches chat
handle_error_Propagate ==
    [response |-> NoText, confidence |-> 0, path |-> "raised", plan_steps |-> <<>>]

\* "except Exception as e: return await self._handle_error(...)"
handle_error ==
    [response |-> ApologyText("I apologize, but I'm experiencing technical difficulties"),
     confidence |-> 2, path |-> "error", plan_steps |-> <<>>]

\* what _synthesize_response's try block can raise on: results that are not
\* the dicts the four agents build
SynthesisRaises ==
    IF handlers = "stub" /\ results # <<>> THEN BOOLEAN ELSE {FALSE}

\* format_chat_response plus the session_id that chat adds
format_chat_response(orchestrator_result, session_id, n) ==
    [n |-> n, status |-> 200, response |-> orchestrator_result.response,
     confidence |-> orchestrator_result.confidence, session_id |-> session_id]

ResetExec ==
    /\ results' = <<>>
    /\ accumulated_context' = EmptyContext
    /\ completed_agents' = {}
    /\ progress_made' = FALSE
    /\ idx' = 0
    /\ rounds' = 0
    /\ tasks' = <<>>
    /\ calls' = <<>>

\* chat: get_or_create_session, then process_request is started
ChatReceive ==
    \E id \in CallerIds \cup {None}, fresh \in Uuids, r \in Requests :
        /\ pc = "idle" /\ returned.n < MaxRequests
        /\ fresh \notin DOMAIN sessions
        /\ LET g == get_or_create_session(sessions, id, fresh, now)
           IN  /\ sessions' = g.store
               /\ sid' = g.id
        /\ req' = r
        /\ pc' = "begin"
        /\ context' = EmptyContext
        /\ plan' = ExecutionPlan("sequential", <<>>)
        /\ validation' = [is_valid |-> TRUE, issues |-> <<>>]
        /\ final' = NoFinal
        /\ ResetExec
        /\ UNCHANGED <<now, last, llm, handlers, inflight, returned>>

\* process_request up to the plan: session, context, create_plan
ProcessBegin ==
    /\ pc = "begin"
    /\ LET g == get_or_create_session(sessions, sid, sid, now)
           c == get_context_for_agents(g.store, g.id, now)
       IN  /\ sessions' = c.store
           /\ context' = c.context
           /\ plan' = create_plan(req, c.context, FALSE)
    /\ pc' = "created"
    /\ UNCHANGED <<now, last, llm, handlers, inflight, req, sid, validation, final, returned,
                   execVars>>

\* "if not is_valid: return await self._handle_invalid_plan(...)": the
\* tech_support handler is called with the request and the context
HandleInvalidPlan ==
    /\ pc = "validated" /\ ~validation.is_valid
    /\ calls' = <<[step |-> 0, agent |-> "orchestrator", ctx |-> context],
                  [step |-> 0, agent |-> "tech_support", ctx |-> context]>>
    /\ pc' = "invalid_wait"
    /\ UNCHANGED <<storeVars, llm, handlers, inflight, req, sid, context, plan, validation,
                   final, returned, results, accumulated_context, completed_agents,
                   progress_made, idx, rounds, tasks>>

InvalidFinish ==
    /\ pc = "invalid_wait"
    /\ \E o \in Outcomes("tech_support", req, context, 0) :
          final' = IF o.kind = "result"
                   THEN [response |-> o.result.response, confidence |-> 6,
                         path |-> "invalid", plan_steps |-> <<>>]
                   ELSE handle_error
    /\ pc' = "done"
    /\ UNCHANGED <<storeVars, llm, handlers, inflight, req, sid, context, plan, validation,
                   returned, execVars>>

\* BeginExecute without the "if not is_valid" test
BeginExecute_Unchecked ==
    /\ pc = "validated"
    /\ pc' = "execute"
    /\ UNCHANGED <<storeVars, llm, handlers, inflight, req, sid, context, plan, validation,
                   final, returned, execVars>>

BeginExecute ==
    /\ pc = "validated" /\ validation.is_valid
    /\ pc' = "execute"
    /\ UNCHANGED <<storeVars, llm, handlers, inflight, req, sid, context, plan, validation,
                   final, returned, execVars>>

\* the time the handlers and the backend took
Elapse ==
    /\ pc = "executed"
    /\ now % session_timeout = 0 /\ now + 1 <= MaxTime
    /\ now' = now + 1
    /\ UNCHANGED <<sessions, last, reqVars, execVars>>

Synthesize ==
    /\ pc = "executed"
    /\ \E gen \in GenOutcomes, raised \in SynthesisRaises :
          final' = synthesize_response(results, plan, gen, raised)
    /\ pc' = "synthesized"
    /\ UNCHANGED <<storeVars, llm, handlers, inflight, req, sid, context, plan, validation,
                   returned, execVars>>

\* "# Update memory": two add_message calls; one that raises ends in _handle_error
UpdateMemory ==
    /\ pc = "synthesized"
    /\ LET u == add_message(sessions, sid, "user", req, None, now)
           a == add_message(u.store, sid, "assistant", final.response,
                            "orchestrator", now)
       IN  IF u.raised THEN sessions' = u.store /\ final' = handle_error
           ELSE IF a.raised THEN sessions' = a.store /\ final' = handle_error
           ELSE sessions' = a.store /\ UNCHANGED final
    /\ pc' = "done"
    /\ UNCHANGED <<now, last, llm, handlers, inflight, req, sid, context, plan, validation,
                   returned, execVars>>

\* chat after process_request: the formatted reply, or HTTP 500 from chat's
\* own "except Exception" when process_request raised
ChatReturn ==
    /\ pc = "done"
    /\ returned' = IF final.path = "raised"
                   THEN [NoReturn EXCEPT !.n = returned.n + 1, !.status = 500,
                                         !.session_id = sid]
                   ELSE format_chat_response(final, sid, returned.n + 1)
    /\ pc' = "idle"
    /\ UNCHANGED <<storeVars, llm, handlers, inflight, req, sid, context, plan, validation,
                   final, execVars>>

\* the tasks of a parallel plan once process_request is cancelled while it
\* awaits task k: the cancellation reaches the awaited task, and a task that
\* nobody awaits any more keeps its state (what it returns is dropped)
TasksAfterCancel(k) ==
    [j \in 1..Len(tasks) |->
        [NoTask EXCEPT !.state = IF j = k /\ tasks[j].state # "done" THEN "cancelled"
                                 ELSE tasks[j].state]]

\* asyncio.wait_for gave up: HTTP 504, process_request is cancelled at its await
ChatTimeout ==
    /\ pc \in {"seq_wait", "par_wait", "cond_wait", "invalid_wait", "executed"}
    /\ returned' = [NoReturn EXCEPT !.n = returned.n + 1, !.status = 504,
                                    !.session_id = sid]
    /\ pc' = "idle"
    /\ final' = NoFinal
    /\ results' = <<>>
    /\ accumulated_context' = EmptyContext
    /\ completed_agents' = {}
    /\ progress_made' = FALSE
    /\ idx' = 0
    /\ rounds' = 0
    /\ calls' = <<>>
    /\ tasks' = IF pc = "par_wait" THEN TasksAfterCancel(idx) ELSE <<>>
    /\ UNCHANGED <<storeVars, llm, handlers, inflight, req, sid, context, plan, validation>>

\* a task left behind by a cancelled request runs on in the event loop
AbandonedTaskRuns ==
    \E k \in 1..Len(tasks) :
        /\ pc = "idle" /\ tasks[k].state \in {"created", "running"}
        /\ tasks' = [tasks EXCEPT ![k].state = IF @ = "created" THEN "running"
                                               ELSE "done"]
        /\ UNCHANGED <<storeVars, reqVars, results, accumulated_context,
                       completed_agents, progress_made, idx, rounds, calls>>

\* a store that holds one session with one recorded turn, or none
PriorUser == Txt("prior request", "short", {"order"}, <<"12345">>, {}, {})

PriorStores ==
    LET s0 == create_session([k \in {} |-> Session(0)], "a", "a", 0).store
        s1 == add_message(s0, "a", "user", PriorUser, None, 0).store
        s2 == add_message(s1, "a", "assistant", MockText("orchestrator"),
                          "orchestrator", 0).store
    IN  {[k \in {} |-> Session(0)], s2}

Init ==
    /\ sessions \in PriorStores
    /\ now = 0
    /\ last = NoCall
    /\ llm \in {"unconfigured", "failing", "ok"}
    /\ handlers = "agents"
    /\ pc = "idle"
    /\ req = NoText
    /\ sid = None
    /\ context = EmptyContext
    /\ plan = ExecutionPlan("sequential", <<>>)
    /\ validation = [is_valid |-> TRUE, issues |-> <<>>]
    /\ final = NoFinal
    /\ returned = NoReturn
    /\ IdleExec
    /\ inflight = <<>>

Next ==
    \/ ChatReceive \/ ProcessBegin \/ ValValidate \/ HandleInvalidPlan
    \/ InvalidFinish \/ BeginExecute \/ ExecSeqPar \/ ExecCond \/ Elapse
    \/ Synthesize \/ UpdateMemory \/ ChatReturn \/ ChatTimeout \/ Tick
    \/ AbandonedTaskRuns

Spec == Init /\ [][Next]_vars

Answered == pc = "idle" /\ returned.status = 200

\* C1 (as stated): whatever the request and the session, the reply the chat
\* endpoint returns has a confidence between 0 and 1 and a non-empty response
\* text, on every path.
C1_ReplyWellFormed ==
    Answered => /\ returned.confidence \in 0..10
                /\ returned.response.len # "empty"

\* the part of C1 that holds: the confidence (in tenths)
C1_ConfidenceInRange == returned.confidence \in 0..10

\* C2 (as stated): when the generative backend is unavailable or fails on every
\* call, synthesis over at least one handler result returns the response text of
\* the handler result with the highest confidence (the first one on ties).
C2_FallbackToBestHandlerText ==
    (/\ pc = "synthesized" /\ llm \in {"unconfigured", "failing"}
     /\ results # <<>>)
    => /\ final.response = create_fallback_response(results).response
       /\ final.path # "error"

\* C4: a plan that validate_plan rejects is never executed: none of its steps
\* leaves "pending", no handler is invoked for a step; instead tech_support is
\* invoked exactly once and the reply is built from its result.
C4_InvalidPlanNeverExecuted ==
    ~validation.is_valid =>
        /\ \A k \in 1..NSteps : plan.steps[k].status = "pending"
        /\ results = <<>> /\ tasks = <<>>
        /\ pc \in {"validated", "invalid_wait", "done", "idle"}
        /\ pc = "validated" => calls = <<>>
        /\ pc \in {"invalid_wait", "done"} \/ Answered =>
              /\ Len(calls) = 2
              /\ calls[2].agent = "tech_support" /\ calls[2].ctx = context
        /\ pc = "done" \/ Answered => final.path = "invalid" /\ final.confidence = 6
        /\ Answered => returned.response = final.response

C4_Witness ==
    /\ Answered /\ ~validation.is_valid
    /\ has_circular_dependencies(plan.steps)
    /\ final.path = "invalid"

\* C10 (as stated): every request that is answered has been appended to the
\* session: the user message and then the assistant reply are the last two
\* messages of the session, also when the plan was rejected.
C10_AnsweredTurnIsRecorded ==
    Answered =>
        /\ returned.session_id \in DOMAIN sessions
        /\ LET m == sessions[returned.session_id].messages
           IN  /\ Len(m) >= 2
               /\ m[Len(m) - 1] = Message("user", req, None)
               /\ m[Len(m)] = Message("assistant", returned.response, "orchestrator")

----------------------------------------------------------------------------
(* Further claims about the session memory *)

\* C11: add_message called with an id that is unknown or expired raises
\* ("Session ... not found or expired"), appends no message to any session and
\* leaves no session under that id.
C11_AddMessageToMissingSessionFails ==
    [][(/\ last'.op = "add_message" /\ last' # last
        /\ (last'.id \notin DOMAIN sessions \/ Expired(sessions, last'.id, now)))
       => /\ last'.raised
          /\ last'.id \notin DOMAIN sessions'
          /\ \A k \in DOMAIN sessions' :
                k \in DOMAIN sessions /\ sessions'[k] = sessions[k]]_vars

C11_Witness ==
    /\ last.op = "add_message" /\ last.raised /\ last.expired
    /\ last.id \notin DOMAIN sessions

----------------------------------------------------------------------------
(* The readers of the session memory: get_context_for_agents and the        *)
(* session endpoint, on sessions with a history of up to MaxHistory         *)
(* messages                                                                 *)

MaxHistory == 6      \* messages of the session the readers start from
MaxAppends == 1      \* messages appended to it afterwards

CtxMessages ==
    {[role |-> "user", content |-> Txt("msg", "short", {"order"}, <<"12345">>, {}, {})],
     [role |-> "assistant", content |-> Txt("reply", "short", {}, <<>>, {}, {})]}

CtxNewMessages ==
    {[role |-> r, content |-> Txt("new", "short", {"order"}, <<"99999">>, {"wifi"}, {"laptop"})] :
        r \in {"user", "assistant"}}

\* the messages in the store that were appended after the start
NewCount(store) ==
    SumMsgs([id \in DOMAIN store |->
                [messages |-> SelectSeq(store[id].messages,
                                        LAMBDA m : m.content.id = "new")]],
            DOMAIN store)

\* the store after add_message for each message of msgs, in order
RECURSIVE Replay(_, _, _, _)
Replay(store, id, msgs, t) ==
    IF msgs = <<>> THEN store
    ELSE Replay(add_message(store, id, Head(msgs).role, Head(msgs).content, None, t).store,
                id, Tail(msgs), t)

CtxStores ==
    {[k \in {} |-> Session(0)]}
    \cup {Replay(create_session([k \in {} |-> Session(0)], "a", "a", 0).store, "a", msgs, 0) :
             msgs \in SeqsUpTo(CtxMessages, MaxHistory)}

\* the context dict after the store changed: while its fact lists are the
\* session's own lists they show what add_message appends to them; a session
\* that was deleted (dropped) keeps its lists as they were
Aliased(ctx, store, dropped) ==
    IF ~ctx.shares_lists THEN ctx
    ELSE IF ctx.session_id \in dropped \/ ctx.session_id \notin DOMAIN store
    THEN [ctx EXCEPT !.shares_lists = FALSE]
    ELSE [ctx EXCEPT
             !.issues_mentioned = store[ctx.session_id].issues_mentioned,
             !.orders_discussed = store[ctx.session_id].orders_discussed,
             !.products_discussed = store[ctx.session_id].products_discussed]

CtxInit ==
    /\ sessions \in CtxStores
    /\ now = 0
    /\ last = NoCall
    /\ IdleReq
    /\ IdleExec
    /\ inflight = <<>>

CtxSnapshot ==
    \E id \in CallerIds :
        /\ LET r == get_context_for_agents(sessions, id, now)
           IN  /\ sessions' = r.store
               /\ context' = r.context
               /\ last' = [NoCall EXCEPT
                     !.op = "get_context_for_agents", !.id = id,
                     !.ret = IF id \in DOMAIN r.store THEN id ELSE None,
                     !.expired = WasExpired(id)]
        /\ UNCHANGED <<now, llm, handlers, inflight, pc, req, sid, plan, validation, final,
                       returned, execVars>>

CtxAddMessage ==
    \E id \in CallerIds, m \in CtxNewMessages :
        /\ NewCount(sessions) < MaxAppends
        /\ LET r == add_message(sessions, id, m.role, m.content, None, now)
           IN  /\ sessions' = r.store
               /\ context' = Aliased(context, r.store,
                                     IF r.raised THEN {id} ELSE {})
               /\ last' = [NoCall EXCEPT
                     !.op = "add_message", !.id = id, !.raised = r.raised,
                     !.role = m.role, !.content = m.content,
                     !.expired = WasExpired(id),
                     !.before = IF id \in DOMAIN sessions THEN Facts(sessions[id])
                                ELSE NoFacts]
        /\ UNCHANGED <<now, llm, handlers, inflight, pc, req, sid, plan, validation, final,
                       returned, execVars>>

\* POST /reset: get_all_session_ids, then clear_all_sessions
CtxReset ==
    /\ sessions # clear_all_sessions(sessions)
    /\ sessions' = clear_all_sessions(get_all_session_ids(sessions, now).store)
    /\ context' = Aliased(context, sessions', DOMAIN sessions)
    /\ last' = [NoCall EXCEPT !.op = "clear_all_sessions"]
    /\ UNCHANGED <<now, llm, handlers, inflight, pc, req, sid, plan, validation, final,
                   returned, execVars>>

\* get_conversation_history: [history, store]
get_conversation_history(store, id, t) ==
    LET g == get_session(store, id, t)
    IN  [history |-> IF g.found THEN g.store[id].messages ELSE <<>>,
         store |-> g.store]

\* GET /session/{session_id}: 404 "if not history"
CtxHistory ==
    \E id \in CallerIds :
        /\ LET r == get_conversation_history(sessions, id, now)
           IN  /\ sessions' = r.store
               /\ context' = Aliased(context, r.store, {id} \ DOMAIN r.store)
               /\ last' = [NoCall EXCEPT
                     !.op = "get_session_history", !.id = id,
                     !.expired = WasExpired(id),
                     !.status = IF r.history = <<>> THEN 404 ELSE 200,
                     !.history = r.history]
        /\ UNCHANGED <<now, llm, handlers, inflight, pc, req, sid, plan, validation, final,
                       returned, execVars>>

CtxNext == CtxSnapshot \/ CtxAddMessage \/ CtxReset \/ CtxHistory \/ Tick

SpecCtx == CtxInit /\ [][CtxNext]_vars

\* C12: get_context_for_agents never raises: for a missing or expired session
\* it returns the empty dict, for a live one the session's three fact lists,
\* the number n of its messages and exactly its last min(5, n) messages (role
\* and content) in the order they were appended.
C12_ContextSnapshot ==
    last.op = "get_context_for_agents" =>
        IF last.ret = None
        THEN context = EmptyContext /\ last.id \notin DOMAIN sessions
        ELSE LET m == sessions[last.id].messages
                 n == Len(m)
                 k == IF n < 5 THEN n ELSE 5
             IN  /\ ~last.expired
                 /\ context.session_id = last.id
                 /\ Facts(context) = Facts(sessions[last.id])
                 /\ context.conversation_length = n
                 /\ Len(context.recent_conversation) = k
                 /\ \A i \in 1..k :
                       /\ context.recent_conversation[i].role = m[n - k + i].role
                       /\ context.recent_conversation[i].content = m[n - k + i].content

\* a snapshot of a session that holds more than five messages
C12_Witness ==
    /\ last.op = "get_context_for_agents" /\ last.ret # None
    /\ Len(sessions[last.id].messages) > 5
    /\ Len(context.recent_conversation) = 5

\* a snapshot asked for an expired session
C12_WitnessExpired ==
    /\ last.op = "get_context_for_agents" /\ last.expired
    /\ context = EmptyContext

\* C13 (as stated): the session endpoint answers "not found" exactly when the
\* session is absent or expired; for every live session, also one without any
\* message yet, it returns the session's messages in the order of appending.
C13_HistoryNotFoundIffAbsent ==
    last.op = "get_session_history" =>
        /\ last.status = 404 <=> last.id \notin DOMAIN sessions
        /\ last.status = 200 => last.history = sessions[last.id].messages

\* the part of C13 that holds: an answer carries the messages in order, and an
\* absent or expired session is answered with "not found"
C13_HistoryInOrder ==
    last.op = "get_session_history" =>
        /\ last.id \notin DOMAIN sessions => last.status = 404
        /\ last.status = 200 => last.history = sessions[last.id].messages

----------------------------------------------------------------------------
(* Failure kinds of the chat endpoint *)

\* C14: the chat endpoint aborts a request only with the timeout failure
\* (HTTP 504), never with the generic internal error (HTTP 500): every other
\* failure inside process_request (a handler, the plan's validation, the
\* generative backend, the memory update) is absorbed, process_request returns
\* a result with a confidence in range, the apology on the error path, and
\* chat answers 200 with that result.
C14_OnlyTimeoutAborts ==
    /\ returned.status \in {0, 200, 504}
    /\ pc = "idle" /\ returned.status = 504 =>
          returned.response = NoText /\ final = NoFinal
    /\ pc = "done" =>
          /\ final.path \in {"synthesis", "fallback", "invalid", "error"}
          /\ final.confidence \in 0..10
          /\ final.path = "error" =>
                /\ final.confidence = 2
                /\ final.response =
                      ApologyText("I apologize, but I'm experiencing technical difficulties")
    /\ Answered =>
          /\ returned.response = final.response
          /\ returned.confidence = final.confidence

\* a request whose memory update failed is answered with the apology
C14_Witness == Answered /\ final.path = "error" /\ returned.confidence = 2

\* a request that timed out
C14_WitnessTimeout == pc = "idle" /\ returned.status = 504

\* a request answered while the backend fails on every call
C14_WitnessBackendDown == Answered /\ llm = "failing" /\ final.path = "synthesis"

----------------------------------------------------------------------------
(* create_plan as a function of the request, the context and a fault *)

PlanContexts ==
    {[EmptyContext EXCEPT !.orders_discussed = o, !.products_discussed = p] :
        o \in {<<>>, <<"12345">>}, p \in {<<>>, <<"laptop">>}}

PlanInit ==
    /\ sessions = [k \in {} |-> Session(0)]
    /\ now = 0
    /\ last = NoCall
    /\ llm = "unconfigured"
    /\ handlers = "agents"
    /\ pc = "begin"
    /\ req \in Requests
    /\ sid = None
    /\ context \in PlanContexts
    /\ plan = ExecutionPlan("sequential", <<>>)
    /\ validation = [is_valid |-> TRUE, issues |-> <<>>]
    /\ final = NoFinal
    /\ returned = NoReturn
    /\ IdleExec
    /\ inflight = <<>>

PlanCreate ==
    /\ pc = "begin"
    /\ \E raises \in BOOLEAN :
          /\ plan' = create_plan(req, context, raises)
          /\ last' = [NoCall EXCEPT !.op = "create_plan", !.raised = raises]
    /\ pc' = "created"
    /\ UNCHANGED <<sessions, now, llm, handlers, inflight, req, sid, context, validation,
                   final, returned, execVars>>

PlanNext == PlanCreate \/ ValValidate

SpecPlan == PlanInit /\ [][PlanNext]_vars

\* C15: create_plan always returns a plan object; when something raised during
\* planning it is the fallback plan: sequential, exactly one step, for
\* tech_support and without dependencies, estimated time 10, confidence 0.5;
\* and validate_plan accepts that plan.
C15_FallbackPlan ==
    last.op = "create_plan" =>
        /\ plan.status \in {"ready", "fallback"}
        /\ plan.steps # <<>>
        /\ last.raised =>
              /\ plan.execution_mode = "sequential"
              /\ Len(plan.steps) = 1
              /\ plan.steps[1].agent_type = "tech_support"
              /\ plan.steps[1].depends_on = {}
              /\ plan.estimated_time = 10 /\ plan.confidence = 50
              /\ plan.status = "fallback"
              /\ validate_plan(plan).is_valid
              /\ pc = "validated" => validation.is_valid /\ validation.issues = <<>>

C15_Witness ==
    /\ last.op = "create_plan" /\ last.raised /\ pc = "validated"
    /\ plan.status = "fallback" /\ validation.is_valid

----------------------------------------------------------------------------
(* Overlapping chat requests on one session, in the one event loop of the
   server: a coroutine runs without interruption from one await to the next *)

MaxConcurrent == 2

RequestNames == <<"request 1", "request 2", "request 3">>
ReplyNames == <<"reply 1", "reply 2", "reply 3">>

\* the user messages request i may carry: an order question, a call for help,
\* and one whose plan validate_plan rejects (two product steps)
ConcRequests(i) ==
    {[Txt(RequestNames[i], "short", w, o, {}, {}) EXCEPT !.wordy = c] :
        <<w, o, c>> \in {<<{"order"}, <<"12345">>, FALSE>>,
                         <<{"help"}, <<>>, FALSE>>,
                         <<{"alternative", "resolve"}, <<>>, TRUE>>}}

\* what _execute_plan and _synthesize_response hand back for request i
ConcReplies(i) ==
    {[response |-> Txt(ReplyNames[i], "long", {}, o, {}, {}), confidence |-> 7,
      path |-> "synthesis", plan_steps |-> <<>>] : o \in {<<>>, <<"12345">>}}

NoRequest ==
    [pc |-> "none", req |-> NoText, sid |-> None, context |-> EmptyContext,
     final |-> NoFinal, status |-> 0, raised |-> FALSE]

ConcInit ==
    /\ sessions \in PriorStores
    /\ now \in {0, session_timeout}
    /\ last = NoCall
    /\ IdleReq
    /\ IdleExec
    /\ inflight = [i \in 1..MaxConcurrent |-> NoRequest]

\* chat: get_or_create_session, then process_request is scheduled
ConcReceive(i) ==
    \E id \in CallerIds, r \in ConcRequests(i) :
        /\ inflight[i].pc = "none"
        /\ LET g == get_or_create_session(sessions, id, id, now)
           IN  /\ sessions' = g.store
               /\ inflight' = [inflight EXCEPT
                     ![i] = [@ EXCEPT !.pc = "received", !.req = r, !.sid = g.id]]
        /\ UNCHANGED <<now, last, llm, handlers, pc, req, sid, context, plan,
                       validation, final, returned, execVars>>

\* process_request up to the first handler it awaits: session, context, plan,
\* validation
ConcBegin(i) ==
    /\ inflight[i].pc = "received"
    /\ LET g == get_or_create_session(sessions, inflight[i].sid, inflight[i].sid, now)
           c == get_context_for_agents(g.store, g.id, now)
           v == validate_plan(create_plan(inflight[i].req, c.context, FALSE))
       IN  /\ sessions' = c.store
           /\ inflight' = [inflight EXCEPT
                 ![i] = [@ EXCEPT !.pc = IF v.is_valid THEN "running" ELSE "invalid",
                                  !.sid = g.id, !.context = c.context]]
    /\ UNCHANGED <<now, last, llm, handlers, pc, req, sid, context, plan,
                   validation, final, returned, execVars>>

\* _handle_invalid_plan returned: the reply goes out, nothing is appended
ConcInvalidFinish(i) ==
    /\ inflight[i].pc = "invalid"
    /\ \E o \in Outcomes("tech_support", inflight[i].req, inflight[i].context, 0) :
          inflight' = [inflight EXCEPT
              ![i] = [@ EXCEPT
                  !.pc = "returned", !.status = 200,
                  !.final = IF o.kind = "result"
                            THEN [response |-> o.result.response, confidence |-> 6,
                                  path |-> "invalid", plan_steps |-> <<>>]
                            ELSE handle_error]]
    /\ UNCHANGED <<storeVars, llm, handlers, pc, req, sid, context, plan,
                   validation, final, returned, execVars>>

\* _synthesize_response returned: "# Update memory" and the return, in one run
ConcFinish(i) ==
    /\ inflight[i].pc = "running"
    /\ \E reply \in ConcReplies(i) :
          LET u == add_message(sessions, inflight[i].sid, "user", inflight[i].req,
                               None, now)
              a == add_message(u.store, inflight[i].sid, "assistant",
                               reply.response, "orchestrator", now)
              failed == u.raised \/ a.raised
          IN  /\ sessions' = IF u.raised THEN u.store ELSE a.store
              /\ inflight' = [inflight EXCEPT
                    ![i] = [@ EXCEPT
                        !.pc = "returned", !.status = 200, !.raised = failed,
                        !.final = IF failed THEN handle_error ELSE reply]]
    /\ UNCHANGED <<now, last, llm, handlers, pc, req, sid, context, plan,
                   validation, final, returned, execVars>>

\* asyncio.wait_for gave up on request i
ConcTimeout(i) ==
    /\ inflight[i].pc \in {"running", "invalid"}
    /\ inflight' = [inflight EXCEPT ![i] = [@ EXCEPT !.pc = "returned", !.status = 504]]
    /\ UNCHANGED <<storeVars, llm, handlers, pc, req, sid, context, plan,
                   validation, final, returned, execVars>>

\* the time the handlers and the backend take
ConcElapse ==
    /\ \E i \in 1..MaxConcurrent : inflight[i].pc \in {"received", "running", "invalid"}
    /\ now % session_timeout = 0 /\ now + 1 <= MaxTime
    /\ now' = now + 1
    /\ UNCHANGED <<sessions, last, reqVars, execVars>>

ConcStep == \E i \in 1..MaxConcurrent :
    ConcReceive(i) \/ ConcBegin(i) \/ ConcInvalidFinish(i) \/ ConcFinish(i)
        \/ ConcTimeout(i)

ConcNext == ConcStep \/ ConcElapse \/ MemListSessions \/ CtxReset

SpecConc == ConcInit /\ [][ConcNext]_vars

BothAnswered ==
    \A i \in 1..MaxConcurrent : inflight[i].pc = "returned" /\ inflight[i].status = 200

\* position of request i's user message in the history, 0 if it is not there
TurnOf(i, m) ==
    IF \E k \in 1..Len(m) : m[k] = Message("user", inflight[i].req, None)
    THEN CHOOSE k \in 1..Len(m) : m[k] = Message("user", inflight[i].req, None)
    ELSE 0

\* C16 (as stated): when two overlapping requests on the same session have both
\* been answered, the session history holds both user messages, each directly
\* followed by its own reply, and the fact lists hold every order mentioned in
\* either request exactly once.
C16_NoLostUpdate ==
    BothAnswered =>
        \A i \in 1..MaxConcurrent :
            /\ inflight[i].sid \in DOMAIN sessions
            /\ LET s == sessions[inflight[i].sid]
                   k == TurnOf(i, s.messages)
               IN  /\ k > 0 /\ k < Len(s.messages)
                   /\ s.messages[k + 1] =
                         Message("assistant", inflight[i].final.response, "orchestrator")
                   /\ Range(inflight[i].req.orders) \subseteq Range(s.orders_discussed)
                   /\ NoDuplicates(s.orders_discussed)

\* the part of C16 that holds: a request that updates the memory appends its
\* user message and its reply next to each other at the end of the history,
\* and the fact lists never hold a value twice
C16_TurnsAppendedTogether ==
    [][\A i \in 1..MaxConcurrent :
          (/\ inflight[i].pc = "running" /\ inflight'[i].pc = "returned"
           /\ inflight'[i].status = 200 /\ ~inflight'[i].raised)
          => /\ inflight[i].sid \in DOMAIN sessions'
             /\ LET m == sessions'[inflight[i].sid].messages
                    old == IF Expired(sessions, inflight[i].sid, now) THEN <<>>
                           ELSE sessions[inflight[i].sid].messages
                IN  m = old \o <<Message("user", inflight[i].req, None),
                                 Message("assistant", inflight'[i].final.response,
                                         "orchestrator")>>
             /\ \A id \in DOMAIN sessions' :
                   /\ NoDuplicates(sessions'[id].orders_discussed)
                   /\ NoDuplicates(sessions'[id].issues_mentioned)
                   /\ NoDuplicates(sessions'[id].products_discussed)]_vars

\* two requests overlapped and both recorded their turn
C16_WitnessBothRecorded ==
    /\ BothAnswered
    /\ \A i \in 1..MaxConcurrent : inflight[i].final.path = "synthesis"
    /\ "a" \in DOMAIN sessions /\ Len(sessions["a"].messages) >= 4

\* C17 (as stated): once get_or_create_session has returned the id, the
\* add_message calls of the same request do not fail with "not found", whatever
\* other requests, sweeps, resets and the passage of time do in between.
C17_AppendAfterResolveSucceeds ==
    \A i \in 1..MaxConcurrent : ~inflight[i].raised

----------------------------------------------------------------------------
(* The example request *)

NoPriorFacts ==
    /\ context.session_id # None
    /\ context.orders_discussed = <<>> /\ context.products_discussed = <<>>
    /\ context.issues_mentioned = <<>> /\ context.conversation_length = 0

\* C18: for "My laptop order #12345 won't turn on, I need help!" in a session
\* without prior facts, the plan covers at least order and tech_support, is
\* conditional with the tech_support step depending on order, passes
\* validate_plan, and the reply's confidence is at least 0.3.
C18_ExampleRequest ==
    (req = TestRequest /\ NoPriorFacts) =>
        /\ {"order", "tech_support"} \subseteq Range(analyze_request(req, context))
        /\ {"order", "tech_support"} \subseteq
              {plan.steps[k].agent_type : k \in 1..Len(plan.steps)}
        /\ plan.execution_mode = "conditional"
        /\ \A k \in 1..Len(plan.steps) :
              plan.steps[k].agent_type = "tech_support" =>
                  "order" \in plan.steps[k].depends_on
        /\ validate_plan(plan).is_valid
        /\ pc # "created" => validation.is_valid
        /\ plan.confidence >= 30
        /\ Answered => returned.confidence >= 3

C18_Witness ==
    /\ req = TestRequest /\ NoPriorFacts /\ Answered
    /\ Len(plan.steps) = 3 /\ plan.steps[3].agent_type = "solutions"
    /\ Len(results) = 3

----------------------------------------------------------------------------
(* The context dict and the session it was taken from *)

\* C19 (as stated): the context returned by get_context_for_agents is a copy:
\* whatever is later appended to the session, and whether the session is reset
\* or expires, the context shows the facts that were there when it was taken.
C19_SnapshotIsACopy ==
    context.session_id # None => Facts(context) = context.facts_when_taken

\* the part of C19 that holds: only a successful add_message on the session the
\* context was taken from changes the context's facts; a reset or an expiry
\* leaves them, and the recent messages and the length never change
C19_OnlyAppendsShowThrough ==
    [][(last'.op # "get_context_for_agents" /\ context.session_id # None)
       => /\ context'.recent_conversation = context.recent_conversation
          /\ context'.conversation_length = context.conversation_length
          /\ Facts(context') # Facts(context) =>
                /\ last'.op = "add_message" /\ ~last'.raised
                /\ last'.id = context.session_id]_vars

----------------------------------------------------------------------------
(* Facts and the role of a message *)

\* C20 (as stated): add_message with role "assistant" leaves the session's
\* orders, products and issues as they were, whatever the reply text contains.
C20_AssistantMessageAddsNoFacts ==
    (last.op = "add_message" /\ last.role = "assistant" /\ ~last.raised)
    => Facts(sessions[last.id]) = last.before

\* the part of C20 that holds: the assistant message is appended at the end and
\* last_activity is set to the time of the call
C20_AssistantMessageAppended ==
    [][(/\ last'.op = "add_message" /\ last'.role = "assistant" /\ ~last'.raised
        /\ sessions' # sessions)
       => /\ sessions'[last'.id].messages =
                Append(sessions[last'.id].messages,
                       Message("assistant", last'.content, None))
          /\ sessions'[last'.id].last_activity = now]_vars

----------------------------------------------------------------------------
(* Plans that create_plan builds *)

\* every depends_on entry of step k names the capability of another step
DependsOnOtherSteps(steps) ==
    \A k \in 1..Len(steps) : \A d \in steps[k].depends_on :
        \E j \in 1..Len(steps) : j # k /\ steps[j].agent_type = d

\* the plan came from the product-comparison-then-alternatives rule
ProductAlternativesPlan ==
    /\ Len(plan.steps) = 2
    /\ plan.steps[1].agent_type = "product" /\ plan.steps[2].agent_type = "product"

\* C21 (as stated): every plan create_plan returns has at least one step, has
\* only dependencies on capabilities of other steps of the plan, has no cycle,
\* and is accepted by validate_plan; this includes the plans of the
\* product-comparison-then-alternatives rule.
C21_CreatedPlansAreValid ==
    last.op = "create_plan" =>
        /\ plan.steps # <<>>
        /\ DependsOnOtherSteps(plan.steps)
        /\ ~has_circular_dependencies(plan.steps)
        /\ validate_plan(plan).is_valid

\* the part of C21 that holds: every plan has a step and names only
\* capabilities that are in the plan, and every plan that does not come from
\* the product-comparison-then-alternatives rule is accepted
C21_OtherPlansAreValid ==
    last.op = "create_plan" =>
        /\ plan.steps # <<>>
        /\ \A k \in 1..Len(plan.steps) :
              plan.steps[k].depends_on \subseteq StepTypes(plan.steps)
        /\ ~ProductAlternativesPlan =>
              /\ DependsOnOtherSteps(plan.steps)
              /\ validate_plan(plan).is_valid

----------------------------------------------------------------------------
(* Conditional mode: order of the handler invocations *)

\* capabilities of the steps whose handler was invoked before the j-th entry
\* of calls (entry 1 is the context the execution started with)
InvokedBefore(j) == {calls[i].agent : i \in 2..(j - 1)}

\* C22: in conditional mode a step's handler is invoked only when every
\* capability of its depends_on is completed, that is, when a step of each of
\* those capabilities was invoked and has returned or raised before; a step
\* made ready by an earlier step of the same scan runs in that scan.
C22_DependenciesBeforeHandler ==
    plan.execution_mode = "conditional" =>
        /\ \A j \in 2..Len(calls) :
              /\ plan.steps[calls[j].step].depends_on \subseteq InvokedBefore(j)
              /\ j < Len(calls) \/ pc # "cond_wait" =>
                    calls[j].agent \in completed_agents
        /\ pc = "cond_wait" => plan.steps[idx].depends_on \subseteq completed_agents

\* two steps, the second depending on the first, both run in the first scan
C22_Witness ==
    /\ plan.execution_mode = "conditional" /\ pc = "executed" /\ rounds = 1
    /\ Len(calls) = 3
    /\ calls[2].agent \in plan.steps[calls[3].step].depends_on

----------------------------------------------------------------------------
(* Conditional mode: termination *)

\* the event loop resumes _execute_plan whenever it can take a step: every
\* awaited handler returns or raises
SpecCondFair == CondInit /\ [][ExecCond]_vars /\ WF_vars(ExecCond)

WasInvoked(k) == \E j \in 2..Len(calls) : calls[j].step = k

\* C23: conditional execution ends for every plan, also with a dependency
\* cycle, a dependency that is not in the plan or two steps of one capability:
\* either every step was run (completed or failed), or the scan just finished
\* made no progress; the loop takes at most one scan per step, and a step that
\* never became ready was never invoked and is still pending.
C23_ConditionalTerminates ==
    /\ <>(pc = "executed")
    /\ [](rounds <= NSteps)
    /\ [](pc = "executed" =>
            /\ plan.status = "completed"
            /\ \/ \A k \in 1..NSteps : plan.steps[k].status \in {"completed", "failed"}
               \/ ~progress_made
            /\ \A k \in 1..NSteps :
                  IF WasInvoked(k)
                  THEN plan.steps[k].status \in {"completed", "failed"}
                  ELSE plan.steps[k].status = "pending")

\* a plan with a cycle ended with a step that was never run
C23_Witness ==
    /\ pc = "executed" /\ has_circular_dependencies(plan.steps)
    /\ NSteps = 3 /\ Len(calls) = 2 /\ ~progress_made
    /\ \E k \in 1..NSteps : ~WasInvoked(k) /\ plan.steps[k].status = "pending"

\* two steps of one capability: the second is never run
C23_WitnessSameCapability ==
    /\ pc = "executed" /\ NSteps = 2 /\ ~progress_made
    /\ plan.steps[1].agent_type = plan.steps[2].agent_type
    /\ WasInvoked(1) /\ ~WasInvoked(2)

----------------------------------------------------------------------------
(* Conditional mode: a step whose handler raised, and the plan summary *)

\* _execute_plan in conditional mode followed by _synthesize_response
SpecCondReply == CondInit /\ [][ExecCond \/ Synthesize]_vars

CallIndex(k) == CHOOSE j \in 2..Len(calls) : calls[j].step = k

FailedSteps == {k \in 1..NSteps : plan.steps[k].status = "failed"}

----------------------------------------------------------------------------
(* Sequential and parallel mode: a handler that raises *)

\* C25: in sequential and parallel mode a step whose handler raised has status
\* failed and one synthetic error result at its position; every other step is
\* still run and has its own result; _execute_plan returns one result per step
\* and sets the plan's status to completed.
C25_FailureIsPerStep ==
    (pc = "executed" /\ plan.execution_mode \in {"sequential", "parallel"}) =>
        /\ plan.status = "completed"
        /\ Len(results) = NSteps
        /\ \A k \in 1..NSteps :
              /\ plan.steps[k].status \in {"completed", "failed"}
              /\ plan.steps[k].status = "failed" =>
                    results[k] = ErrorResult(plan.steps[k].agent_type)
              /\ plan.steps[k].status = "completed" =>
                    results[k] = plan.steps[k].result /\ ~results[k].error
              /\ plan.execution_mode = "sequential" => WasInvoked(k)
              /\ plan.execution_mode = "parallel" =>
                    /\ tasks[k].state = "done"
                    /\ tasks[k].outcome.kind = "raise" <=> plan.steps[k].status = "failed"

\* three parallel steps, the second raised
C25_Witness ==
    /\ pc = "executed" /\ plan.execution_mode = "parallel" /\ NSteps = 3
    /\ plan.steps[1].status = "completed" /\ plan.steps[2].status = "failed"
    /\ plan.steps[3].status = "completed"
    /\ results[2].error /\ ~results[3].error

\* three sequential steps, the first raised
C25_WitnessSequential ==
    /\ pc = "executed" /\ plan.execution_mode = "sequential" /\ NSteps = 3
    /\ plan.steps[1].status = "failed" /\ plan.steps[2].status = "completed"
    /\ plan.steps[3].status = "completed"
    /\ results[1].error /\ Len(calls) = 4

----------------------------------------------------------------------------
(* The execution mode create_plan chooses *)

\* the capabilities with a positive score, or the best-scoring one if none has
Selected ==
    LET above == {a \in Caps : Score(a, req, context) > 0}
    IN  IF above = {} THEN {BestAgent(req, context)} ELSE above

\* C26: create_plan chooses the mode from the selected capabilities: exactly one
\* gives a sequential plan with that one step; two or more give a conditional
\* plan when the request is complex, and otherwise a parallel plan with exactly
\* one step per selected capability, each without dependencies.
C26_ModeFromSelection ==
    (last.op = "create_plan" /\ ~last.raised) =>
        /\ plan.status = "ready"
        /\ Cardinality(Selected) = 1 =>
              /\ plan.execution_mode = "sequential"
              /\ Len(plan.steps) = 1
              /\ plan.steps[1].agent_type \in Selected
              /\ plan.steps[1].depends_on = {}
        /\ (Cardinality(Selected) >= 2 /\ is_complex_request(req)) =>
              plan.execution_mode = "conditional"
        /\ (Cardinality(Selected) >= 2 /\ ~is_complex_request(req)) =>
              /\ plan.execution_mode = "parallel"
              /\ Len(plan.steps) = Cardinality(Selected)
              /\ StepTypes(plan.steps) = Selected
              /\ \A k \in 1..Len(plan.steps) : plan.steps[k].depends_on = {}

\* a parallel plan over two capabilities
C26_Witness ==
    /\ last.op = "create_plan" /\ ~last.raised /\ pc = "validated"
    /\ plan.execution_mode = "parallel" /\ Len(plan.steps) = 2
    /\ plan.steps[1].agent_type # plan.steps[2].agent_type

C26_WitnessConditional ==
    /\ last.op = "create_plan" /\ ~last.raised
    /\ plan.execution_mode = "conditional" /\ Cardinality(Selected) >= 2

C26_WitnessSequential ==
    /\ last.op = "create_plan" /\ ~last.raised
    /\ plan.execution_mode = "sequential" /\ Cardinality(Selected) = 1

----------------------------------------------------------------------------
(* validate_plan accumulates every issue *)

IssuesOfKind(kind) == SelectSeq(validation.issues, LAMBDA i : i.kind = kind)

\* the depends_on entries of the plan that name a capability no step has
AbsentDependencies ==
    {e \in (1..Len(plan.steps)) \X Caps :
        /\ e[2] \in plan.steps[e[1]].depends_on
        /\ e[2] \notin StepTypes(plan.steps)}

\* the required tools of the plan that the step's capability does not have
UnavailableTools ==
    {e \in (1..Len(plan.steps)) \X
           (ExtraTools \cup UNION {agent_capabilities[a].tools : a \in Caps}) :
        /\ e[2] \in plan.steps[e[1]].tools_required
        /\ e[2] \notin agent_capabilities[plan.steps[e[1]].agent_type].tools}

\* C27: validate_plan accumulates all checks: ok is true exactly when the issue
\* list is empty, and the list holds one issue for an empty plan, one for each
\* depends_on entry naming a capability absent from the plan, one when a cycle
\* exists and one for each required tool outside the capability's tool set, so
\* a plan violating several checks gets all of those issues in one call.
C27_AllIssuesAccumulated ==
    pc = "validated" =>
        /\ validation.is_valid <=> validation.issues = <<>>
        /\ Len(IssuesOfKind(NoStepsIssue.kind)) = (IF plan.steps = <<>> THEN 1 ELSE 0)
        /\ Len(IssuesOfKind("depends on a step which is not in the plan"))
              = Cardinality(AbsentDependencies)
        /\ \A e \in AbsentDependencies :
              Issue("depends on a step which is not in the plan",
                    plan.steps[e[1]].agent_type, e[2]) \in Range(validation.issues)
        /\ Len(IssuesOfKind(CircularIssue.kind))
              = (IF CapGraphHasCycle(plan.steps) THEN 1 ELSE 0)
        /\ Len(IssuesOfKind("requires unavailable tool")) = Cardinality(UnavailableTools)
        /\ \A e \in UnavailableTools :
              Issue("requires unavailable tool",
                    plan.steps[e[1]].agent_type, e[2]) \in Range(validation.issues)
        /\ Len(validation.issues)
              = Len(IssuesOfKind(NoStepsIssue.kind))
                + Cardinality(AbsentDependencies)
                + Len(IssuesOfKind(CircularIssue.kind))
                + Cardinality(UnavailableTools)

\* one call reports an absent dependency, a cycle and two unavailable tools
C27_Witness ==
    /\ pc = "validated" /\ ~validation.is_valid
    /\ Cardinality(AbsentDependencies) >= 1
    /\ CircularIssue \in Range(validation.issues)
    /\ Cardinality(UnavailableTools) >= 2
    /\ Len(validation.issues) >= 4

C27_WitnessEmptyPlan ==
    pc = "validated" /\ plan.steps = <<>> /\ validation.issues = <<NoStepsIssue>>

C27_WitnessValid ==
    pc = "validated" /\ validation.is_valid /\ Len(plan.steps) = MaxSteps

----------------------------------------------------------------------------
(* The confidence of a synthesized reply *)

\* _execute_plan in each of its modes followed by _synthesize_response, with
\* the four agents or with stub handlers, and with each kind of backend
ReplyInit ==
    /\ sessions = [k \in {} |-> Session(0)]
    /\ now = 0
    /\ last = NoCall
    /\ llm \in {"unconfigured", "failing", "ok"}
    /\ handlers \in {"stub", "agents"}
    /\ pc = "execute"
    /\ req = StubRequest
    /\ sid = None
    /\ context = EmptyContext
    /\ plan \in {ExecutionPlan(m, s) :
                    m \in {"sequential", "parallel", "conditional"},
                    s \in AnyStepsOf({"order", "product"}, MaxExecSteps, 0)}
    /\ validation = [is_valid |-> TRUE, issues |-> <<>>]
    /\ final = NoFinal
    /\ returned = NoReturn
    /\ IdleExec
    /\ inflight = <<>>

ReplyNext == ExecSeqPar \/ ExecCond \/ Synthesize

SpecReply == ReplyInit /\ [][ReplyNext]_vars

\* the confidence generate_response gave with the text of the reply
SynthesisConfidence ==
    IF final.response = MockText("orchestrator")
    THEN generate_mock_response("orchestrator").confidence
    ELSE estimate_confidence(final.response)

\* the confidences the handlers returned
HandlerConfidences ==
    {results[i].confidence : i \in {j \in 1..Len(results) : results[j].has_confidence}}

MaxOfSet(S) == CHOOSE m \in S : \A x \in S : x <= m

C28_WitnessSynthesisLower ==
    /\ pc = "synthesized" /\ final.path = "synthesis"
    /\ HandlerConfidences # {}
    /\ SynthesisConfidence < MaxOfSet(HandlerConfidences)
    /\ final.confidence = SynthesisConfidence

\* no handler results: every step of a conditional plan failed
C28_WitnessNoResults ==
    /\ pc = "synthesized" /\ final.path = "synthesis"
    /\ plan.steps # <<>> /\ results = <<>>
    /\ final.confidence = 5

----------------------------------------------------------------------------
(* Sub-tasks of a parallel plan and the end of their request *)

Unfinished == {k \in 1..Len(tasks) : tasks[k].state \in {"created", "running"}}

\* C29: no sub-task outlives its request: every handler task launched for a
\* step of a parallel plan has finished or been cancelled by the time the
\* request returns a response or fails, also when the external timeout aborts
\* the request while tasks are in flight.
C29_NoTaskOutlivesRequest ==
    pc = "idle" => Unfinished = {}

\* a request that was not aborted leaves _execute_plan with every task finished
C29_ExecutedPlanLeavesNoTask ==
    pc \in {"executed", "synthesized", "done"} =>
        \A k \in 1..Len(tasks) : tasks[k].state = "done"

\* the timeout cancels the task process_request was awaiting
C29_AwaitedTaskIsCancelled ==
    [][ChatTimeout /\ pc = "par_wait" =>
          tasks'[idx].state \in {"done", "cancelled"}]_vars

----------------------------------------------------------------------------
(* One execution of a plan, in any mode *)

ExecuteInit == ExecInit \/ CondInit

ExecuteNext == ExecSeqPar \/ ExecCond

SpecExecute == ExecuteInit /\ [][ExecuteNext]_vars

TimesInvoked(k) == Cardinality({j \in 2..Len(calls) : calls[j].step = k})

StatusMovesForward(before, after) ==
    \/ after = before
    \/ before = "pending" /\ after = "running"
    \/ before = "running" /\ after \in {"completed", "failed"}

\* C30: during one execution of a plan, in every mode, each step's handler is
\* invoked at most once and a step's status only moves forward from pending to
\* running to completed or failed; when _execute_plan returns no step is
\* running and there are at most as many results as steps.
C30_StepsRunOnceAndForward ==
    /\ [](\A k \in 1..NSteps : TimesInvoked(k) <= 1)
    /\ [](plan.execution_mode = "parallel" => Len(tasks) <= NSteps)
    /\ [][\A k \in 1..NSteps :
             StatusMovesForward(plan.steps[k].status, plan'.steps[k].status)]_vars
    /\ [][\A k \in 1..Len(tasks) :
             tasks # <<>> /\ tasks' # <<>> /\ tasks[k].state # "created"
                 => tasks'[k].state # "created"]_vars
    /\ [](pc = "executed" =>
             /\ \A k \in 1..NSteps : plan.steps[k].status # "running"
             /\ Len(results) <= NSteps)

\* a conditional plan returned with a failed step, a completed step and a step
\* that was never invoked
C30_Witness ==
    /\ pc = "executed" /\ plan.execution_mode = "conditional" /\ NSteps = 3
    /\ \E a, b, c \in 1..NSteps :
          /\ plan.steps[a].status = "failed" /\ TimesInvoked(a) = 1
          /\ plan.steps[b].status = "completed" /\ TimesInvoked(b) = 1
          /\ plan.steps[c].status = "pending" /\ TimesInvoked(c) = 0
    /\ Len(results) = 1

C30_WitnessParallel ==
    /\ pc = "executed" /\ plan.execution_mode = "parallel" /\ NSteps = 3
    /\ Len(tasks) = 3 /\ Len(results) = 3

C30_WitnessSequential ==
    /\ pc = "executed" /\ plan.execution_mode = "sequential" /\ NSteps = 3
    /\ \A k \in 1..NSteps : TimesInvoked(k) = 1

====
